---- MODULE Spec2Model ----
(***************************************************************************)
(* A model of rateslib's Solver (src/rateslib/solver.py): the iteration    *)
(* controller, the step algorithms, the cached properties, the scoped      *)
(* mutations of the sensitivity strategies, the differentiation-order      *)
(* switch, the risk reports' guards, and the constructor's validation of   *)
(* curve identifiers over a dependency chain.                              *)
(*                                                                         *)
(* Numbers live on a fixed-point grid: a node value, rate or target is an  *)
(* integer number of steps of 10, an objective value or tolerance an       *)
(* integer number of steps of 100 (so that f = w * x * x holds between the *)
(* integers), and a linear solve returns the grid point nearest to the     *)
(* exact quotient (RoundDiv), as a binary float returns the nearest        *)
(* representable number.                                                   *)
(*                                                                         *)
(* Python runs one call at a time, so an operation of the public interface *)
(* is one action; iterate is split at its loop head, one action per cycle. *)
(* An operation is a function from World to World (the mutable fields the  *)
(* call can touch), with a raised exception carried in the field exc.      *)
(***************************************************************************)
EXTENDS Integers, Sequences, FiniteSets, TLC

----------------------------------------------------------------------------
(* Bounds of the model *)

\* the largest max_iter a solver is constructed with
MaxIterBound == 3
\* the most solvers constructed one after another
MaxSolvers == 2
\* the most curves and the most pre-solvers handed to one constructor call
MaxCurves == 1
MaxPre == 2

(* Program constants *)

\* iterate: self.f_prev = 1e10 at the start of every run, in objective steps
\* of 100
F_PREV_INIT == 100000000
\* iterate: self.lambd = 1000 at the start of every run
LAMBD_INIT == 1000

----------------------------------------------------------------------------
(* Values *)

\* Python's None for a cached attribute, and a held value
None == {}
Some(x) == {x}
The(c) == CHOOSE x \in c : TRUE

NoFx == "None"

\* no exception in flight
NoExc == [type |-> "none", msg |-> ""]
ValueError(msg) == [type |-> "ValueError", msg |-> msg]
NotImplementedError(alg) == [type |-> "NotImplementedError", msg |-> alg]
LinAlgError == [type |-> "LinAlgError", msg |-> "Singular matrix"]
ZeroDivisionError == [type |-> "ZeroDivisionError", msg |-> ""]

Abs(a) == IF a < 0 THEN -a ELSE a
Sgn(a) == IF a < 0 THEN -1 ELSE IF a = 0 THEN 0 ELSE 1
\* p / q on the grid: the nearest grid point, a tie away from zero (q # 0)
RoundDiv(p, q) == Sgn(p) * Sgn(q) * ((2 * Abs(p) + Abs(q)) \div (2 * Abs(q)))

RECURSIVE SumSeq(_)
SumSeq(q) == IF q = <<>> THEN 0 ELSE Head(q) + SumSeq(Tail(q))

Last(q) == q[Len(q)]

\* lambd is held in units of 1 / LambdUnit, so that a run's quarterings are exact
LambdUnit == 4 ^ (MaxIterBound + 1)

----------------------------------------------------------------------------
(* The configurations the model is run with *)

Solvers == {"main", "pre"}
CurveIds == {"c0", "c1"}

\* the three documented algorithms, the one of sensitivity extraction, and a
\* name _update_step_ does not know
Algorithms ==
  {"gradient_descent", "gauss_newton", "levenberg_marquardt",
   "gauss_newton_final", "newton_raphson"}

FuncTols == {1, 5}
ConvTols == {1, 9, F_PREV_INIT}
WeightVals == {0, 1}
NodeInits == {0, 3}
TargetVals == {1, 3}
\* instruments of the model: rate(v) = v (linear), and two whose rate waves
\* around v with the same slope at every grid point
InstrumentKinds == {"linear", "wave1", "wave2"}

Methods ==
  {"_grad_s_vT_final_iteration_analytical", "_grad_s_vT_final_iteration_dual",
   "_grad_s_vT_fixed_point_iteration"}

VARIABLES
  algorithm, max_iter, func_tol, conv_tol, weights, fx, pre_solvers,
  instruments, grad_s_vT_method,
  s, ad, cache, curves, fx_ad, f_prev, f_list, lambd,
  pc, i, caller, status, result, events, nsteps, last_v1,
  registry, ctor_result, ctor_args, arg, out

cfgVars ==
  <<algorithm, max_iter, func_tol, conv_tol, weights, fx, pre_solvers,
    instruments, grad_s_vT_method>>
objVars == <<s, ad, cache, curves, fx_ad, f_prev, f_list, lambd>>
ctlVars == <<pc, i, caller, status, result, events, nsteps, last_v1>>
ctorVars == <<registry, ctor_result, ctor_args, arg, out>>
vars == <<cfgVars, objVars, ctlVars, ctorVars>>

----------------------------------------------------------------------------
(* The solvers' fixed structure *)

\* self.curves of each solver, in registration order
SolverCurves(sid) == IF sid = "main" THEN <<"c1">> ELSE <<"c0">>
\* self.pre_solvers
PreSolversOf(sid) == IF sid = "main" THEN pre_solvers ELSE <<>>
\* self.weights
WeightsOf(sid) == IF sid = "main" THEN weights ELSE <<1>>
\* self.instruments
InstrumentsOf(sid) == IF sid = "main" THEN instruments ELSE <<"linear">>
\* self.fx: the chain shares the one FX object, when there is one
FxOf(sid) == fx
\* curve._ini_solve: the first node of every curve is not solver-controlled
IniSolve == 1
\* self.m
M(sid) == Len(InstrumentsOf(sid))

----------------------------------------------------------------------------
(* Collaborators: differentiable scalars, curves and instruments *)

\* a float target
Float(x) == [real |-> x, tag |-> "float"]
\* Dual(v, "s<k>") and Dual2(v, "s<k>"): a target tagged as a variable
DualTarget(x, order, k) ==
  [real |-> x, tag |-> IF order = 1 THEN "Dual" ELSE "Dual2", var |-> k]

\* DualType(real, vars): a curve node
Node(x, nodevars, order) == [real |-> x, vars |-> nodevars, order |-> order]

\* curve._set_ad_order(order): every node is re-typed
curve_set_ad_order(c, order) ==
  [nodes |-> [k \in DOMAIN c.nodes |->
                Node(c.nodes[k].real, c.nodes[k].vars, order)],
   ad |-> order]

\* the nodes of a curve from _ini_solve on
SolvedNodes(c) == SubSeq(c.nodes, IniSolve + 1, Len(c.nodes))

\* the wave of an instrument's rate around the node value
Amp(kind) == CASE kind = "linear" -> 0 [] kind = "wave1" -> 1 [] kind = "wave2" -> 2
\* instrument.rate(...): the rate at node value x, and its slope there
Price(kind, x) == x + Amp(kind) * (x % 2)
Slope(kind, x) == 1

\* the rate of instrument k of solver sid, priced off the solver's curve: a
\* differentiable scalar carrying its gradient to the solver's variables
Rate(w, sid, k) ==
  LET nd == SolvedNodes(w.curves[SolverCurves(sid)[1]])[1]
      kind == InstrumentsOf(sid)[k]
  IN [real |-> Price(kind, nd.real), grad |-> Slope(kind, nd.real),
      order |-> nd.order, at |-> nd.real]

----------------------------------------------------------------------------
(* Cached properties.  A property reads its cache and, when that is None,  *)
(* computes and stores; the operators named fill_... are the computing     *)
(* halves, applied to the world in which the properties they read are set. *)

EmptyCache ==
  [v |-> None, r |-> None, x |-> None, f |-> None, J |-> None,
   grad_s_vT |-> None, grad_s_vT_pre |-> None,
   J2 |-> None, J2_pre |-> None, grad_s_s_vT |-> None, grad_s_s_vT_pre |-> None]

\* the cached attributes _reset_properties_ sets to None
ResetFields(dual2_only) ==
  IF dual2_only THEN {"J2", "J2_pre", "grad_s_s_vT", "grad_s_s_vT_pre"}
  ELSE {"v", "r", "x", "f", "J", "grad_s_vT", "grad_s_vT_pre",
        "J2", "J2_pre", "grad_s_s_vT", "grad_s_s_vT_pre"}

reset_properties(w, sid, dual2_only) ==
  [w EXCEPT !.cache[sid] =
     [a \in DOMAIN @ |-> IF a \in ResetFields(dual2_only) THEN None ELSE @[a]]]

prop_v(w, sid) ==
  IF w.cache[sid].v # None THEN w
  ELSE [w EXCEPT !.cache[sid].v = Some(SolvedNodes(w.curves[SolverCurves(sid)[1]]))]

prop_r(w, sid) ==
  IF w.cache[sid].r # None THEN w
  ELSE [w EXCEPT !.cache[sid].r = Some([k \in 1..M(sid) |-> Rate(w, sid, k)])]

fill_x(w, sid) ==
  [w EXCEPT !.cache[sid].x =
     Some([k \in 1..M(sid) |->
             [real |-> The(w.cache[sid].r)[k].real - w.s[sid][k].real,
              grad |-> The(w.cache[sid].r)[k].grad,
              at |-> The(w.cache[sid].r)[k].at, s |-> w.s[sid][k]]])]

prop_x(w, sid) ==
  IF w.cache[sid].x # None THEN w ELSE fill_x(prop_r(w, sid), sid)

fill_f(w, sid) ==
  [w EXCEPT !.cache[sid].f =
     Some([real |-> SumSeq([k \in 1..M(sid) |->
                      The(w.cache[sid].x)[k].real
                        * (WeightsOf(sid)[k] * The(w.cache[sid].x)[k].real)]),
           grad |-> SumSeq([k \in 1..M(sid) |->
                      2 * WeightsOf(sid)[k] * The(w.cache[sid].x)[k].real
                        * The(w.cache[sid].x)[k].grad]),
           at |-> The(w.cache[sid].x)[1].at,
           s |-> [k \in 1..M(sid) |-> The(w.cache[sid].x)[k].s]])]

prop_f(w, sid) ==
  IF w.cache[sid].f # None THEN w ELSE fill_f(prop_x(w, sid), sid)

fill_J(w, sid) ==
  [w EXCEPT !.cache[sid].J =
     Some([val |-> [k \in 1..M(sid) |-> The(w.cache[sid].r)[k].grad],
           at |-> The(w.cache[sid].r)[1].at])]

prop_J(w, sid) ==
  IF w.cache[sid].J # None THEN w ELSE fill_J(prop_r(w, sid), sid)

----------------------------------------------------------------------------
(* Step algorithms.  The solver has one variable and one instrument, so    *)
(* every matrix of a step is 1 x 1.                                        *)

\* a dispatcher whose last branch takes every other name
KnownAlgorithm_any(alg) == TRUE

\* the names _update_step_ dispatches on
KnownAlgorithm(alg) ==
  alg \in {"gradient_descent", "gauss_newton", "levenberg_marquardt",
           "gauss_newton_final"}

\* np.linalg.solve and dual_solve on a 1 x 1 system: A delta = b
Solve1(A, b) == RoundDiv(b, A)

\* v_1 = self.v + delta, or the error of a singular system
StepBy(w, sid, A, b, tag) ==
  IF A = 0 THEN [w EXCEPT !.exc = LinAlgError]
  ELSE [w EXCEPT !.v_1 = <<[real |-> The(w.cache[sid].v)[1].real + Solve1(A, b),
                            tag |-> tag]>>]

\* the branch gradient_descent, with f, J, x and v read
step_gradient_descent(w, sid) ==
  LET grad_v_f == The(w.cache[sid].f).grad
      y == The(w.cache[sid].J).val[1] * grad_v_f
      wx == WeightsOf(sid)[1] * The(w.cache[sid].x)[1].real
      wy == WeightsOf(sid)[1] * y
  IN IF y * wy = 0 THEN [w EXCEPT !.exc = ZeroDivisionError]
     ELSE [w EXCEPT !.v_1 =
             <<[real |-> The(w.cache[sid].v)[1].real
                           - RoundDiv(grad_v_f * (y * wx), y * wy),
                tag |-> "float"]>>]

\* a step of half the length
step_gauss_newton_half(w, sid) ==
  StepBy(w, sid, 2 * The(w.cache[sid].J).val[1], -The(w.cache[sid].x)[1].real, "float")

\* the branch gauss_newton, with J, x, f and v read
step_gauss_newton(w, sid) ==
  LET Jv == The(w.cache[sid].J).val[1]
      square == Len(The(w.cache[sid].v)) = Len(The(w.cache[sid].J).val)
  IN IF square
     THEN StepBy(w, sid, Jv, -The(w.cache[sid].x)[1].real, "float")
     ELSE StepBy(w, sid, Jv * (WeightsOf(sid)[1] * Jv),
                 -(The(w.cache[sid].f).grad \div 2), "float")

\* self.lambd *= 2 if self.f_prev < self.f.real else 0.25
NextLambd(lam, fprev, f_val) == IF fprev < f_val THEN lam * 2 ELSE lam \div 4

lambd_update(w, sid) ==
  [w EXCEPT !.lambd = NextLambd(@, w.f_prev, The(w.cache[sid].f).real)]

\* the branch levenberg_marquardt after its update of lambd, with J and v read
step_levenberg_marquardt(w, sid) ==
  LET Jv == The(w.cache[sid].J).val[1]
  IN StepBy(w, sid, (Jv * (WeightsOf(sid)[1] * Jv)) * LambdUnit + w.lambd,
            -(The(w.cache[sid].f).grad \div 2) * LambdUnit, "float")

\* the branch gauss_newton_final, with J, x and v read: the step carries the
\* derivative tags of the targets
step_gauss_newton_final(w, sid) ==
  StepBy(w, sid, The(w.cache[sid].J).val[1], -The(w.cache[sid].x)[1].real,
         The(w.cache[sid].x)[1].s.tag)

\* _update_step_(algorithm): the world after the properties it reads are
\* cached (and lambd updated), with the new variable vector in v_1
update_step(w, sid, alg) ==
  IF ~KnownAlgorithm(alg) THEN [w EXCEPT !.exc = NotImplementedError(alg)]
  ELSE IF alg = "gradient_descent"
    THEN step_gradient_descent(prop_v(prop_x(prop_J(prop_f(w, sid), sid), sid), sid), sid)
  ELSE IF alg = "gauss_newton"
    THEN step_gauss_newton(prop_v(prop_f(prop_x(prop_J(w, sid), sid), sid), sid), sid)
  ELSE IF alg = "levenberg_marquardt"
    THEN step_levenberg_marquardt(
           prop_v(prop_J(lambd_update(prop_f(w, sid), sid), sid), sid), sid)
  ELSE step_gauss_newton_final(prop_v(prop_x(prop_J(w, sid), sid), sid), sid)

\* an event of the running cycle
Mark(w, e) == [w EXCEPT !.ev = Append(@, e)]

\* _update_fx
update_fx(w, sid) == IF FxOf(sid) # NoFx THEN Mark(w, "fx.update") ELSE w

----------------------------------------------------------------------------
(* The world an operation runs in *)

World ==
  [s |-> s, ad |-> ad, cache |-> cache, curves |-> curves, fx_ad |-> fx_ad,
   f_prev |-> f_prev, lambd |-> lambd, exc |-> NoExc, v_1 |-> <<>>, ev |-> <<>>,
   ret |-> None]

\* the object fields after an operation that ran the world to w
Commit(w) ==
  /\ s' = w.s
  /\ ad' = w.ad
  /\ cache' = w.cache
  /\ curves' = w.curves
  /\ fx_ad' = w.fx_ad
  /\ f_prev' = w.f_prev
  /\ lambd' = w.lambd

----------------------------------------------------------------------------
(* iterate *)

\* the two tests in the other order
Decide_func_tol_first(f_val, fprev, ftol, ctol) ==
  IF f_val < ftol THEN "func_tol"
  ELSE IF f_val < fprev /\ (fprev - f_val) < ctol THEN "conv_tol"
  ELSE "continue"

\* the convergence tests of one cycle, in the order iterate makes them
Decide(f_val, fprev, ftol, ctol) ==
  IF f_val < fprev /\ (fprev - f_val) < ctol THEN "conv_tol"
  ELSE IF f_val < ftol THEN "func_tol"
  ELSE "continue"

\* a loop that runs one cycle more
InRange_inclusive(k, maxiter) == k <= maxiter

\* for i in range(self.max_iter)
InRange(k, maxiter) == k < maxiter

\* the overwrite with nodes that carry no derivative tags
WriteNodes_no_tags(w, sid) ==
  Mark(Mark([w EXCEPT !.curves[SolverCurves(sid)[1]].nodes =
               [k \in DOMAIN @ |->
                  IF k > IniSolve
                  THEN Node(w.v_1[k - IniSolve].real, <<>>, w.ad[sid])
                  ELSE @[k]]],
            "write"), "csolve")

\* the loop body's overwrite of the solver-controlled nodes of the solver's
\* curve, followed by the curve's csolve
WriteNodes(w, sid) ==
  Mark(Mark([w EXCEPT !.curves[SolverCurves(sid)[1]].nodes =
               [k \in DOMAIN @ |->
                  IF k > IniSolve
                  THEN Node(w.v_1[k - IniSolve].real, @[k].vars, w.ad[sid])
                  ELSE @[k]]],
            "write"), "csolve")

\* lines 489-491: the start of a run
iterate_begin(w, sid) ==
  update_fx(Mark(reset_properties(
      [w EXCEPT !.f_prev = F_PREV_INIT, !.lambd = LAMBD_INIT * LambdUnit],
      sid, FALSE), "reset"), sid)

IterateBegin ==
  /\ pc \in {"init", "idle"}
  /\ Commit(iterate_begin(World, "main"))
  /\ events' = iterate_begin(World, "main").ev
  /\ f_list' = <<>>
  /\ i' = 0
  /\ caller' = IF pc = "init" THEN "__init__" ELSE "user"
  /\ pc' = "iterate"
  /\ status' = "running"
  /\ result' = [op |-> "iterate", exc |-> NoExc, base |-> FALSE, fxarg |-> FALSE]
  /\ nsteps' = 0
  /\ last_v1' = None
  /\ UNCHANGED <<cfgVars, ctorVars>>

\* where a call of iterate returns to: jacobian goes on after its call, every
\* other caller is done
ReturnTo(c) ==
  IF c \in {"jacobian", "fwd_difference", "fwd_difference_final"} THEN c ELSE "idle"
\* where an exception leaving iterate ends: the constructor's object is never
\* bound, the user's call ends
RaiseTo(c) == IF c = "__init__" THEN "aborted" ELSE "idle"

\* the caches reset before the nodes are written
cycle_write_reset_first(w, sid) ==
  update_fx(WriteNodes(Mark(reset_properties(w, sid, FALSE), "reset"), sid), sid)

\* lines 516-523: the step's result written to the curves, the caches reset,
\* the FX object updated
cycle_write(w, sid) ==
  update_fx(Mark(reset_properties(WriteNodes(w, sid), sid, FALSE), "reset"), sid)

\* the rest of a cycle that did not converge, after _update_step_ ran to w
CycleStep(w) ==
  /\ nsteps' = nsteps + 1
  /\ IF w.exc # NoExc
     THEN /\ Commit(w)
          /\ status' = "raised"
          /\ pc' = RaiseTo(caller)
          /\ result' = [result EXCEPT !.exc = w.exc]
          /\ events' = w.ev
          /\ UNCHANGED <<i, last_v1>>
     ELSE /\ Commit(cycle_write(w, "main"))
          /\ events' = cycle_write(w, "main").ev
          /\ i' = i + 1
          /\ last_v1' = Some([k \in DOMAIN w.v_1 |-> w.v_1[k].real])
          /\ UNCHANGED <<pc, status, result>>

\* a cycle that records the objective only when it goes on to a step
CycleFrom_record_on_step(w, f_val) ==
  IF Decide(f_val, f_prev, func_tol, conv_tol) # "continue"
  THEN /\ Commit(w)
       /\ status' = Decide(f_val, f_prev, func_tol, conv_tol)
       /\ pc' = ReturnTo(caller)
       /\ events' = <<"f">>
       /\ UNCHANGED <<f_list, i, result, nsteps, last_v1>>
  ELSE /\ f_list' = Append(f_list, f_val)
       /\ CycleStep(update_step(
            Mark(Mark(Mark([w EXCEPT !.f_prev = f_val], "f"), "record"), "step"),
            "main", algorithm))

\* a cycle, after f_val = self.f.real ran the world to w
CycleFrom(w, f_val) ==
  /\ f_list' = Append(f_list, f_val)
  /\ IF Decide(f_val, f_prev, func_tol, conv_tol) # "continue"
     THEN /\ Commit(w)
          /\ status' = Decide(f_val, f_prev, func_tol, conv_tol)
          /\ pc' = ReturnTo(caller)
          /\ events' = <<"f", "record">>
          /\ UNCHANGED <<i, result, nsteps, last_v1>>
     ELSE CycleStep(update_step(
            Mark(Mark(Mark([w EXCEPT !.f_prev = f_val], "f"), "record"), "step"),
            "main", algorithm))

\* one pass of the loop body
IterateCycle ==
  /\ pc = "iterate"
  /\ InRange(i, max_iter)
  /\ CycleFrom(prop_f(World, "main"), The(prop_f(World, "main").cache["main"].f).real)
  /\ UNCHANGED <<cfgVars, caller, ctorVars>>

\* lines 524-528: the loop ran out
IterateExhaust ==
  /\ pc = "iterate"
  /\ ~InRange(i, max_iter)
  /\ Commit(prop_f(World, "main"))
  /\ status' = "max_iter"
  /\ pc' = ReturnTo(caller)
  /\ events' = <<"f">>
  /\ UNCHANGED <<cfgVars, f_list, i, caller, result, nsteps, last_v1, ctorVars>>

----------------------------------------------------------------------------
(* _set_ad_order *)

RECURSIVE set_ad_order(_, _, _), set_ad_order_seq(_, _, _)
\* for pre_solver in self.pre_solvers: pre_solver._set_ad_order(order=order)
set_ad_order_seq(w, sids, order) ==
  IF sids = <<>> THEN w
  ELSE set_ad_order_seq(set_ad_order(w, Head(sids), order), Tail(sids), order)

\* self._ad = order, then the solver's curves and FX object
set_ad_order_own(w, sid, order) ==
  [w EXCEPT !.ad[sid] = order,
            !.curves = [cid \in DOMAIN @ |->
                          IF \E k \in DOMAIN SolverCurves(sid) : SolverCurves(sid)[k] = cid
                          THEN curve_set_ad_order(@[cid], order) ELSE @[cid]],
            !.fx_ad = IF FxOf(sid) # NoFx THEN order ELSE @]

set_ad_order(w, sid, order) ==
  set_ad_order_own(set_ad_order_seq(w, PreSolversOf(sid), order), sid, order)

----------------------------------------------------------------------------
(* Second-order tensors of the rates *)

\* whether J2 and J2_pre raise instead of computing: their test of the order
J2Refused(order) == order # 2

\* J2 and J2_pre are known by the node value and the order they were taken at
Tensor(w, sid) ==
  [at |-> SolvedNodes(w.curves[SolverCurves(sid)[1]])[1].real, order |-> w.ad[sid]]

\* the property J2
prop_J2(w, sid) ==
  IF w.cache[sid].J2 # None THEN w
  ELSE IF J2Refused(w.ad[sid]) THEN [w EXCEPT !.exc = ValueError("ad mode")]
  ELSE [w EXCEPT !.cache[sid].J2 = Some(Tensor(w, sid))]

\* self._J2_pre = J2, once the loop over the pre-solvers ran to w
fill_J2_pre(w, sid) ==
  IF w.exc # NoExc THEN w ELSE [w EXCEPT !.cache[sid].J2_pre = Some(Tensor(w, sid))]

RECURSIVE prop_J2_pre(_, _), prop_J2_pre_seq(_, _)
\* for pre_slvr in self.pre_solvers: ... pre_slvr.J2_pre
prop_J2_pre_seq(w, sids) ==
  IF sids = <<>> \/ w.exc # NoExc THEN w
  ELSE prop_J2_pre_seq(prop_J2_pre(w, Head(sids)), Tail(sids))

\* the property J2_pre
prop_J2_pre(w, sid) ==
  IF Len(PreSolversOf(sid)) = 0 THEN prop_J2(w, sid)
  ELSE IF w.cache[sid].J2_pre # None THEN w
  ELSE IF J2Refused(w.ad[sid]) THEN [w EXCEPT !.exc = ValueError("ad mode")]
  ELSE fill_J2_pre(prop_J2_pre_seq(w, PreSolversOf(sid)), sid)

----------------------------------------------------------------------------
(* First-order sensitivity: the three strategies *)

\* self.s = np.array([Dual(v, f"s{i}") ...]) and its Dual2 twin
TagTargets(sv, order) == [k \in DOMAIN sv |-> DualTarget(sv[k].real, order, k - 1)]

\* what a strategy returns: the sensitivity, known by what it was computed from
Sensitivity(w, sid, how) ==
  [method |-> how, at |-> SolvedNodes(w.curves[SolverCurves(sid)[1]])[1].real,
   s |-> w.s[sid]]

\* np.linalg.pinv(self.J), with J read
analytical_end(w, sid) == [w EXCEPT !.ret = Some(Sensitivity(w, sid, "analytical"))]

\* _grad_s_vT_final_iteration_analytical
final_iteration_analytical(w, sid) == analytical_end(prop_J(w, sid), sid)

\* the statement of a strategy that puts the saved targets back
RestoreTargets(w, sid, saved) == [w EXCEPT !.s[sid] = saved]

\* lines 629-632, after _update_step_ ran to w
dual_end(w, sid, saved) ==
  IF w.exc # NoExc THEN w
  ELSE [RestoreTargets(w, sid, saved) EXCEPT !.ret = Some(Sensitivity(w, sid, "dual"))]

\* _grad_s_vT_final_iteration_dual(algorithm)
final_iteration_dual(w, sid, alg) ==
  dual_end(update_step(
             reset_properties([w EXCEPT !.s[sid] = TagTargets(@, 1)], sid, FALSE),
             sid, alg),
           sid, w.s[sid])

\* the second derivative of the objective to the solver's variable, which the
\* fixed-point strategy's linear solve divides by: 2 w (r'^2 + x r''), where the
\* curvature term of the model's instruments never cancels r'^2 on the grid
grad_v_vT_f(w, sid) ==
  2 * WeightsOf(sid)[1] * Rate(w, sid, 1).grad * Rate(w, sid, 1).grad

\* the order _grad_s_vT_fixed_point_iteration leaves the chain in
FixedPointExitOrder(entry) == 1

\* lines 648-655, with the objective under the tagged targets read
fixed_point_end(w, sid, saved, entry) ==
  IF grad_v_vT_f(w, sid) = 0 THEN [w EXCEPT !.exc = LinAlgError]
  ELSE [reset_properties(
          set_ad_order(RestoreTargets(w, sid, saved), sid, FixedPointExitOrder(entry)),
          sid, FALSE)
        EXCEPT !.ret = Some(Sensitivity(w, sid, "fixed_point"))]

\* _grad_s_vT_fixed_point_iteration
fixed_point_iteration(w, sid) ==
  fixed_point_end(
    prop_f([reset_properties(set_ad_order(w, sid, 2), sid, FALSE)
              EXCEPT !.s[sid] = TagTargets(@, 2)], sid),
    sid, w.s[sid], w.ad[sid])

\* self._grad_s_vT_final_iteration_algo
DefaultFinalAlgo == "gauss_newton_final"

\* getattr(self, self._grad_s_vT_method)()
grad_s_vT_by_method(w, sid) ==
  IF grad_s_vT_method = "_grad_s_vT_final_iteration_analytical"
    THEN final_iteration_analytical(w, sid)
  ELSE IF grad_s_vT_method = "_grad_s_vT_final_iteration_dual"
    THEN final_iteration_dual(w, sid, DefaultFinalAlgo)
  ELSE fixed_point_iteration(w, sid)

\* self._grad_s_vT = <what the strategy returned>
fill_grad_s_vT(w, sid) ==
  IF w.exc # NoExc THEN w ELSE [w EXCEPT !.cache[sid].grad_s_vT = w.ret]

\* the property grad_s_vT
prop_grad_s_vT(w, sid) ==
  IF w.cache[sid].grad_s_vT # None THEN w
  ELSE fill_grad_s_vT(grad_s_vT_by_method(w, sid), sid)

\* a property read only when nothing was raised before it
IfOk_grad_s_vT(w, sid) == IF w.exc # NoExc THEN w ELSE prop_grad_s_vT(w, sid)
IfOk_r(w, sid) == IF w.exc # NoExc THEN w ELSE prop_r(w, sid)

\* self._grad_s_vT_pre = grad_s_vT, once the blocks are assembled
fill_grad_s_vT_pre(w, sid) ==
  IF w.exc # NoExc THEN w
  ELSE [w EXCEPT !.cache[sid].grad_s_vT_pre =
          Some([own |-> The(w.cache[sid].grad_s_vT),
                pre |-> [k \in DOMAIN PreSolversOf(sid) |->
                           The(w.cache[PreSolversOf(sid)[k]].grad_s_vT)]])]

RECURSIVE prop_grad_s_vT_pre(_, _), grad_s_vT_pre_loop(_, _, _), IfOk_grad_s_vT_pre(_, _)
IfOk_grad_s_vT_pre(w, sid) == IF w.exc # NoExc THEN w ELSE prop_grad_s_vT_pre(w, sid)

\* the loop of grad_s_vT_pre over the pre-solvers: the left block, the rates and
\* the own sensitivity of the right column, the pre-solver's block again
grad_s_vT_pre_loop(w, sid, sids) ==
  IF sids = <<>> \/ w.exc # NoExc THEN w
  ELSE grad_s_vT_pre_loop(
         IfOk_grad_s_vT_pre(
           IfOk_grad_s_vT(IfOk_r(prop_grad_s_vT_pre(w, Head(sids)), sid), sid),
           Head(sids)),
         sid, Tail(sids))

\* the property grad_s_vT_pre
prop_grad_s_vT_pre(w, sid) ==
  IF Len(PreSolversOf(sid)) = 0 THEN prop_grad_s_vT(w, sid)
  ELSE IF w.cache[sid].grad_s_vT_pre # None THEN w
  ELSE fill_grad_s_vT_pre(
         IfOk_grad_s_vT(grad_s_vT_pre_loop(w, sid, PreSolversOf(sid)), sid), sid)

----------------------------------------------------------------------------
(* Second-order sensitivity *)

\* self._grad_s_s_vT = <the three contractions of J2 with grad_s_vT>
fill_grad_s_s_vT(w, sid) ==
  IF w.exc # NoExc THEN w
  ELSE [w EXCEPT !.cache[sid].grad_s_s_vT =
          Some([J2 |-> The(w.cache[sid].J2),
                grad_s_vT |-> The(w.cache[sid].grad_s_vT)])]

\* the property grad_s_s_vT, by _grad_s_s_vT_final_iteration_analytical()
prop_grad_s_s_vT(w, sid) ==
  IF w.cache[sid].grad_s_s_vT # None THEN w
  ELSE fill_grad_s_s_vT(IfOk_grad_s_vT(prop_J2(w, sid), sid), sid)

fill_grad_s_s_vT_pre(w, sid) ==
  IF w.exc # NoExc THEN w
  ELSE [w EXCEPT !.cache[sid].grad_s_s_vT_pre =
          Some([J2_pre |-> The(w.cache[sid].J2_pre),
                grad_s_vT_pre |-> The(w.cache[sid].grad_s_vT_pre)])]

\* the property grad_s_s_vT_pre, by
\* _grad_s_s_vT_final_iteration_analytical(use_pre=True)
prop_grad_s_s_vT_pre(w, sid) ==
  IF Len(PreSolversOf(sid)) = 0 THEN prop_grad_s_s_vT(w, sid)
  ELSE IF w.cache[sid].grad_s_s_vT_pre # None THEN w
  ELSE fill_grad_s_s_vT_pre(IfOk_grad_s_vT_pre(prop_J2_pre(w, sid), sid), sid)

IfOk_grad_s_s_vT_pre(w, sid) == IF w.exc # NoExc THEN w ELSE prop_grad_s_s_vT_pre(w, sid)

----------------------------------------------------------------------------
(* Risk reports *)

RECURSIVE prop_r_seq(_, _)
\* for solver in self.pre_solvers: rates_pre += [rate for rate in solver.r]
prop_r_seq(w, sids) ==
  IF sids = <<>> THEN w ELSE prop_r_seq(prop_r(w, Head(sids)), Tail(sids))

\* grad_f_vT_pre(fx_vars)
grad_f_vT_pre(w, sid) ==
  IF w.exc # NoExc THEN w
  ELSE prop_grad_s_vT_pre(prop_r(prop_r_seq(w, PreSolversOf(sid)), sid), sid)

\* delta's first test: a base currency with no FX object to convert with
DeltaRefused(base, fxarg, sid) == base /\ FxOf(sid) = NoFx /\ ~fxarg

\* delta(npv, base, fx), for an npv of one currency: the local blocks
\* (_delta_inst_arr_local, _delta_fx_arr_local); the base blocks read the same
\* properties again
delta(w, sid, base, fxarg) ==
  IF DeltaRefused(base, fxarg, sid) THEN [w EXCEPT !.exc = ValueError("base without fx")]
  ELSE grad_f_vT_pre(prop_grad_s_vT_pre(w, sid), sid)

\* gamma's test of the order
GammaRefused(order) == order # 2

\* whether gamma raises for a base currency with no FX object: its test of
\* base and fx stands after the return of _gamma_inst_arr_local(npv)
GammaBaseRefused(base, fxarg, sid) == FALSE

\* gamma(npv, base, fx), for an npv of one currency
gamma(w, sid, base, fxarg) ==
  IF GammaRefused(w.ad[sid]) THEN [w EXCEPT !.exc = ValueError("gamma ad order")]
  ELSE IF GammaBaseRefused(base, fxarg, sid)
    THEN [w EXCEPT !.exc = ValueError("base without fx")]
  ELSE IfOk_grad_s_s_vT_pre(prop_grad_s_vT_pre(w, sid), sid)

----------------------------------------------------------------------------
(* The operations of the interface, each on a solver at rest *)

\* an operation that ran the world to w
Done(op, w, base, fxarg) ==
  /\ Commit(w)
  /\ result' = [op |-> op, exc |-> w.exc, base |-> base, fxarg |-> fxarg]
  /\ UNCHANGED <<cfgVars, f_list, pc, i, caller, status, events, nsteps, last_v1,
                 ctorVars>>

SetAdOrder ==
  /\ pc = "idle"
  /\ \E order \in {1, 2} :
       Done("_set_ad_order", set_ad_order(World, "main", order), FALSE, FALSE)

GetJ2 ==
  /\ pc = "idle"
  /\ Done("J2", prop_J2(World, "main"), FALSE, FALSE)

GetJ2Pre ==
  /\ pc = "idle"
  /\ Done("J2_pre", prop_J2_pre(World, "main"), FALSE, FALSE)

GetGradSvT ==
  /\ pc = "idle"
  /\ Done("grad_s_vT", prop_grad_s_vT(World, "main"), FALSE, FALSE)

FinalIterationDual ==
  /\ pc = "idle"
  /\ \E alg \in {DefaultFinalAlgo, "newton_raphson"} :
       Done("_grad_s_vT_final_iteration_dual", final_iteration_dual(World, "main", alg),
            FALSE, FALSE)

FixedPointIteration ==
  /\ pc = "idle"
  /\ Done("_grad_s_vT_fixed_point_iteration", fixed_point_iteration(World, "main"),
          FALSE, FALSE)

Delta ==
  /\ pc = "idle"
  /\ \E base \in BOOLEAN, fxarg \in BOOLEAN :
       Done("delta", delta(World, "main", base, fxarg), base, fxarg)

Gamma ==
  /\ pc = "idle"
  /\ \E base \in BOOLEAN, fxarg \in BOOLEAN :
       Done("gamma", gamma(World, "main", base, fxarg), base, fxarg)

----------------------------------------------------------------------------
(* The constructor's validation of curve identifiers (lines 151-184).  A   *)
(* curve is an object with an id; two objects may carry the same id.  A    *)
(* dict is a sequence of <<key, value>> in insertion order.                *)

CurveObjs == {"o1", "o2", "o3"}
\* the lists of curves a constructor is handed: every list of at most MaxCurves
\* curves, a curve twice, two curves of one id, and two curves of two ids
CurveLists(n) ==
  UNION {[1..k -> CurveObjs] : k \in 0..n}
    \cup {<<"o1", "o1">>, <<"o1", "o2">>, <<"o1", "o3">>}
\* curve.id
CurveIdOf(o) == CASE o = "o3" -> "b" [] o = "o4" -> "c" [] OTHER -> "a"

\* the lists of at most n elements of S
SeqsUpTo(S, n) == UNION {[1..k -> S] : k \in 0..n}

\* d[k] = v
DictSet(d, k, v) ==
  IF \E j \in DOMAIN d : d[j][1] = k
  THEN [j \in DOMAIN d |-> IF d[j][1] = k THEN <<k, v>> ELSE d[j]]
  ELSE Append(d, <<k, v>>)

RECURSIVE DictUpdate(_, _)
\* d.update(items)
DictUpdate(d, items) ==
  IF items = <<>> THEN d
  ELSE DictUpdate(DictSet(d, Head(items)[1], Head(items)[2]), Tail(items))

\* d[k], for a key d holds
DictGet(d, k) == d[CHOOSE j \in DOMAIN d : d[j][1] = k][2]

\* d.values()
DictValues(d) == [j \in DOMAIN d |-> d[j][2]]

\* self.curves = {curve.id: curve for curve in curves}
CurvesDict(cs) == DictUpdate(<<>>, [j \in DOMAIN cs |-> <<CurveIdOf(cs[j]), cs[j]>>])

\* curve.n: the number of nodes of a curve
CurveN(o) == IF o = "o2" THEN 3 ELSE 2

\* tuple(f"{curve.id}{i}" for i in range(curve._ini_solve, curve.n))
CurveVars(o) ==
  [j \in 1..(CurveN(o) - IniSolve) |-> <<CurveIdOf(o), IniSolve + j - 1>>]

RECURSIVE Variables(_)
\* the loop of lines 153-158 over self.curves.values()
Variables(cv) ==
  IF cv = <<>> THEN <<>> ELSE CurveVars(Head(cv)) \o Variables(Tail(cv))

\* the instruments handed to the constructor along with the curves cs: one
\* for each curve, and a second one of another kind with each curve of id "b"
InstrumentsFor(cs) ==
  IF cs = <<>> THEN <<>>
  ELSE IF CurveIdOf(cs[1]) = "b" THEN <<"x", "y">> \o [j \in 1..(Len(cs) - 1) |-> "x"]
  ELSE [j \in 1..Len(cs) |-> "x"]

\* instrument._rate_scalar
RateScalar(kind) == IF kind = "y" THEN 100 ELSE 1

\* the own part put before the chain's
PlusEq_front(a, b) == b \o a

\* a += b, on tuples and lists
PlusEq(a, b) == a \o b

RECURSIVE Aggregate(_, _)
\* the loop over self.pre_solvers (lines 168-175): the chain-wide sequences,
\* counts and curves grow by each pre-solver's
Aggregate(agg, pres) ==
  IF pres = <<>> THEN agg
  ELSE Aggregate(
         [pre_curves |-> DictUpdate(agg.pre_curves, registry[Head(pres)].pre_curves),
          curve_collection |->
            agg.curve_collection \o DictValues(registry[Head(pres)].pre_curves),
          pre_variables |-> PlusEq(agg.pre_variables, registry[Head(pres)].pre_variables),
          pre_instrument_labels |->
            PlusEq(agg.pre_instrument_labels, registry[Head(pres)].pre_instrument_labels),
          pre_rate_scalars |->
            agg.pre_rate_scalars \o registry[Head(pres)].pre_rate_scalars,
          pre_m |-> agg.pre_m + registry[Head(pres)].pre_m,
          pre_n |-> agg.pre_n + registry[Head(pres)].pre_n],
         Tail(pres))

\* lines 162-167: the chain-wide attributes before the loop, for a solver of
\* m instruments and n variables
Aggregate0(m, n) ==
  [pre_curves |-> <<>>, curve_collection |-> <<>>, pre_variables |-> <<>>,
   pre_instrument_labels |-> <<>>, pre_rate_scalars |-> <<>>, pre_m |-> m, pre_n |-> n]

\* neighbours only
Combinations2_adjacent(n) == {p \in (1..n) \X (1..n) : p[2] = p[1] + 1}

\* combinations(curve_collection, 2), by position
Combinations2(n) == {p \in (1..n) \X (1..n) : p[1] < p[2]}

\* the test the constructor raises on
HasDuplicate(cc) ==
  \E p \in Combinations2(Len(cc)) : CurveIdOf(cc[p[1]]) = CurveIdOf(cc[p[2]])

\* the constructor's state at line 177, for the arguments cs and ps
Collected(cs, ps) ==
  [pre_curves |->
     DictUpdate(Aggregate(Aggregate0(0, 0), ps).pre_curves, CurvesDict(cs)),
   curve_collection |-> Aggregate(Aggregate0(0, 0), ps).curve_collection \o cs]

\* the attributes of the solver id that __init__ has set at line 193, for the
\* arguments cs, insts and ps and the state agg the loop over ps ended in
Constructed(id, cs, insts, ps, agg) ==
  [curves |-> CurvesDict(cs),
   pre_curves |-> DictUpdate(agg.pre_curves, CurvesDict(cs)),
   pre_solvers |-> ps,
   m |-> Len(insts),
   n |-> Len(Variables(DictValues(CurvesDict(cs)))),
   variables |-> Variables(DictValues(CurvesDict(cs))),
   instrument_labels |-> [j \in 1..Len(insts) |-> <<id, j - 1>>],
   pre_variables |-> PlusEq(agg.pre_variables, Variables(DictValues(CurvesDict(cs)))),
   pre_instrument_labels |->
     PlusEq(agg.pre_instrument_labels, [j \in 1..Len(insts) |-> <<id, <<id, j - 1>>>>]),
   pre_rate_scalars |->
     PlusEq(agg.pre_rate_scalars, [j \in 1..Len(insts) |-> RateScalar(insts[j])]),
   pre_m |-> agg.pre_m,
   pre_n |-> agg.pre_n]

\* Solver(curves=cs, instruments=InstrumentsFor(cs), pre_solvers=ps, ...) over
\* solvers constructed before, with default labels, the position in the
\* registry for an id, and instruments the calibration of line 197 succeeds on;
\* agg is the state the loop over ps ends in
ConstructFrom(cs, ps, agg) ==
  /\ IF HasDuplicate(agg.curve_collection \o cs)
     THEN /\ ctor_result' = [exc |-> ValueError("curves must each have their own unique id"),
                             curves |-> cs, pre_solvers |-> ps]
          /\ UNCHANGED registry
     ELSE /\ ctor_result' = [exc |-> NoExc, curves |-> cs, pre_solvers |-> ps]
          /\ registry' = Append(registry,
                                Constructed(Len(registry) + 1, cs, InstrumentsFor(cs), ps, agg))
  /\ UNCHANGED <<cfgVars, objVars, ctlVars, ctor_args, arg, out>>

\* the state of the constructor at line 176, for the arguments cs and ps
AggregateOf(cs, ps) ==
  Aggregate(Aggregate0(Len(InstrumentsFor(cs)), Len(Variables(DictValues(CurvesDict(cs))))),
            ps)

\* at most MaxSolvers solvers, of any curves of CurveObjs
Construct ==
  /\ Len(registry) < MaxSolvers
  /\ \E cs \in CurveLists(MaxCurves), ps \in SeqsUpTo(DOMAIN registry, MaxPre) :
       ConstructFrom(cs, ps, AggregateOf(cs, ps))

\* the longest dependency chain built
MaxChain == 3

\* at most MaxChain solvers, each of no curve, of one of four curves of three
\* ids or of two curves, on solvers constructed before, where the constructor
\* accepts the arguments
ChainConstruct ==
  /\ Len(registry) < MaxChain
  /\ \E cs \in {<<>>, <<"o1">>, <<"o2">>, <<"o3">>, <<"o4">>, <<"o1", "o3">>},
        ps \in SeqsUpTo(DOMAIN registry, MaxPre) :
       /\ ~HasDuplicate(Collected(cs, ps).curve_collection)
       /\ ConstructFrom(cs, ps, AggregateOf(cs, ps))

----------------------------------------------------------------------------
(* _parse_instrument.  A Python value is a record of its type and items: a  *)
(* tuple's elements, a dict's <<key, value>> in insertion order.           *)

Py(kind, items) == [py |-> kind, items |-> items]

\* self._parse_instrument(value) of the solver self whose self.fx is selffx:
\* the stored triple, or the error of a tuple that is no 3-tuple; the merge
\* {**ret2, **value[2]} is the update of ret2 by the items of value[2]
parse_instrument(self, selffx, value) ==
  IF value.py # "tuple"
    THEN [exc |-> NoExc,
          ret |-> <<value, Py("tuple", <<>>),
                    Py("dict", <<<<"solver", self>>, <<"fx", selffx>>>>)>>]
  ELSE IF Len(value.items) # 3
    THEN [exc |-> ValueError("Instrument supplied to Solver as tuple must be a 3-tuple"),
          ret |-> <<>>]
  ELSE [exc |-> NoExc,
        ret |-> <<value.items[1],
                  IF ~(value.items[2] = Py("None", <<>>) \/ value.items[2] = Py("tuple", <<>>))
                    THEN value.items[2] ELSE Py("tuple", <<>>),
                  IF ~(value.items[3] = Py("None", <<>>) \/ value.items[3] = Py("dict", <<>>))
                    THEN Py("dict", DictUpdate(<<<<"solver", self>>, <<"fx", selffx>>>>,
                                               value.items[3].items))
                    ELSE Py("dict", <<<<"solver", self>>, <<"fx", selffx>>>>)>>]

\* line 191 for one instrument of the list
ParseInstrument ==
  /\ arg # None
  /\ out = None
  /\ out' = Some(parse_instrument(The(arg).self, The(arg).fx, The(arg).value))
  /\ UNCHANGED <<cfgVars, objVars, ctlVars, registry, ctor_result, ctor_args, arg>>

----------------------------------------------------------------------------
(* Second-order sensitivity as arrays.  An array of rank r over TensorDim   *)
(* instruments and as many variables is a function of the index tuples      *)
(* [1..r -> 1..TensorDim]; axes count from 0 as in numpy.                   *)

\* the number of instruments and of variables of the arrays
TensorDim == 2

\* the arrays of rank r whose elements are given by the operator
Arr(r, E(_)) == [idx \in [1..r -> 1..TensorDim] |-> E(idx)]
\* len(A.shape)
Rank(A) == Len(CHOOSE idx \in DOMAIN A : TRUE)
\* an index tuple with t put in at axis p
WithAxis(q, p, t) ==
  [k \in 1..(Len(q) + 1) |-> IF k < p + 1 THEN q[k] ELSE IF k = p + 1 THEN t ELSE q[k - 1]]

\* np.tensordot(A, B, (p, q)): the axes of A without p, then those of B
\* without q, summed over the two contracted axes
tensordot(A, B, p, q) ==
  Arr(Rank(A) + Rank(B) - 2,
      LAMBDA idx :
        SumSeq([t \in 1..TensorDim |->
                  A[WithAxis(SubSeq(idx, 1, Rank(A) - 1), p, t)]
                    * B[WithAxis(SubSeq(idx, Rank(A), Len(idx)), q, t)]]))

\* np.swapaxes(A, a, b)
swapaxes(A, a, b) ==
  [idx \in DOMAIN A |-> A[[idx EXCEPT ![a + 1] = idx[b + 1], ![b + 1] = idx[a + 1]]]]

\* the second contraction over the other axis of grad_s_vT
grad_s_s_vT_analytical_axis0(J2, g) ==
  [idx \in [1..3 -> 1..TensorDim] |->
     -tensordot(g, tensordot(g, tensordot(J2, g, 2, 0), 0, 0), 1, 1)[idx]]

\* lines 720-723: the three contractions of J2 with grad_s_vT
grad_s_s_vT_analytical(J2, g) ==
  [idx \in [1..3 -> 1..TensorDim] |->
     -tensordot(g, tensordot(g, tensordot(J2, g, 2, 0), 1, 0), 1, 1)[idx]]

\* line 703, on the array the loop of lines 696-700 filled
fwd_difference_symmetrise(raw) ==
  [idx \in DOMAIN raw |-> RoundDiv(raw[idx] + swapaxes(raw, 0, 1)[idx], 2)]

\* _grad_s_s_vT_final_iteration_analytical on J2 and grad_s_vT as read
AnalyticalContraction ==
  /\ arg # None
  /\ out = None
  /\ The(arg).method = "analytical"
  /\ out' = Some(grad_s_s_vT_analytical(The(arg).J2, The(arg).grad_s_vT))
  /\ UNCHANGED <<cfgVars, objVars, ctlVars, registry, ctor_result, ctor_args, arg>>

\* _grad_s_s_vT_fwd_difference_method from its line 703 on
FwdDifferenceSymmetrise ==
  /\ arg # None
  /\ out = None
  /\ The(arg).method = "fwd_difference"
  /\ out' = Some(fwd_difference_symmetrise(The(arg).raw))
  /\ UNCHANGED <<cfgVars, objVars, ctlVars, registry, ctor_result, ctor_args, arg>>

----------------------------------------------------------------------------
(* grad_s_vT_pre as an array.  An element is known by the array it was      *)
(* copied from: link k's grad_s_vT_pre, the coupling block of link k, the   *)
(* solver's own grad_s_vT, or the zero np.zeros put there.  A link is the   *)
(* pair of its pre_m and pre_n, the solver the pair of its m and n.         *)

\* the p x q array named tag of link k
Block(tag, k, p, q) ==
  [r \in 1..p |-> [c \in 1..q |-> [b |-> tag, k |-> k, r |-> r, c |-> c]]]

\* a[lo:hi] on an axis of length len, for lo, hi >= 0: the offset and the
\* length of the slice
SliceTo(lo, hi, len) ==
  [off |-> IF lo < len THEN lo ELSE len,
   len |-> IF (IF hi < len THEN hi ELSE len) > (IF lo < len THEN lo ELSE len)
           THEN (IF hi < len THEN hi ELSE len) - (IF lo < len THEN lo ELSE len)
           ELSE 0]
\* a[-k:] on an axis of length len, for k >= 1
SliceLast(k, len) ==
  [off |-> IF len > k THEN len - k ELSE 0, len |-> IF len > k THEN k ELSE len]

\* g.a[rows, cols] = src, by numpy's broadcasting: an axis of src fits when it
\* is as long as the slice or has length 1
SetSlice(g, rows, cols, src) ==
  IF g.exc # NoExc THEN g
  ELSE IF ~(/\ Len(src) = rows.len \/ Len(src) = 1
            /\ Len(src[1]) = cols.len \/ Len(src[1]) = 1)
    THEN [g EXCEPT !.exc = ValueError("could not broadcast input array")]
  ELSE [g EXCEPT !.a =
          [r \in DOMAIN @ |-> [c \in DOMAIN @[r] |->
             IF /\ r > rows.off /\ r <= rows.off + rows.len
                /\ c > cols.off /\ c <= cols.off + cols.len
             THEN src[IF Len(src) = 1 THEN 1 ELSE r - rows.off]
                     [IF Len(src[1]) = 1 THEN 1 ELSE c - cols.off]
             ELSE @[r][c]]]]

RECURSIVE grad_s_vT_pre_links(_, _, _, _, _, _)
\* the loop of lines 600-613 from link k on, with the offsets i0 and j0
grad_s_vT_pre_links(g, links, k, i0, j0, own) ==
  IF k > Len(links) THEN g
  ELSE grad_s_vT_pre_links(
         SetSlice(
           SetSlice(g, SliceTo(i0, links[k].m, Len(g.a)), SliceTo(j0, links[k].n, Len(g.a[1])),
                    Block("link", k, links[k].m, links[k].n)),
           SliceTo(i0, links[k].m, Len(g.a)), SliceLast(own.m, Len(g.a[1])),
           Block("coupling", k, links[k].m, own.n)),
         links, k + 1, i0 + links[k].m, j0 + links[k].n, own)

\* lines 597-617: the array of zeros, the loop, the bottom right block
grad_s_vT_pre_array(links, own) ==
  SetSlice(
    grad_s_vT_pre_links(
      [exc |-> NoExc,
       a |-> Block("zero", 0, own.m + SumSeq([k \in DOMAIN links |-> links[k].m]),
                   own.n + SumSeq([k \in DOMAIN links |-> links[k].n]))],
      links, 1, 0, 0, own),
    SliceLast(own.m, own.m + SumSeq([k \in DOMAIN links |-> links[k].m])),
    SliceLast(own.m, own.n + SumSeq([k \in DOMAIN links |-> links[k].n])),
    Block("own", 0, own.m, own.n))

----------------------------------------------------------------------------
(* instrument_labels.  An iterable is a tuple, which every read yields in   *)
(* full, or a generator, which yields each item once: its items are what it *)
(* has left to yield.                                                       *)

\* the most reads of instrument_labels after construction
MaxReads == 2

\* for lbl in obj, to the end: what is yielded, and the object afterwards
iterate_all(obj) ==
  [yielded |-> obj.items,
   after |-> IF obj.py = "generator" THEN Py("generator", <<>>) ELSE obj]

\* lines 135-141: self.instrument_labels, for the solver id, its m instruments
\* and the argument given (None, or the labels)
labels_assigned(id, m, given) ==
  IF given # None
  THEN IF m # Len(The(given))
       THEN [exc |-> ValueError("instrument_labels must have length instruments"),
             instrument_labels |-> Py("None", <<>>)]
       ELSE [exc |-> NoExc, instrument_labels |-> Py("tuple", The(given))]
  ELSE [exc |-> NoExc,
        instrument_labels |-> Py("generator", [j \in 1..m |-> <<id, j - 1>>])]

\* lines 135-141 and 186 of the constructor of a solver without pre-solvers:
\* the labels assigned, then read for pre_instrument_labels
labels_constructed(id, m, given) ==
  IF labels_assigned(id, m, given).exc # NoExc
  THEN [exc |-> labels_assigned(id, m, given).exc,
        instrument_labels |-> Py("None", <<>>), pre_instrument_labels |-> <<>>,
        reads |-> <<>>]
  ELSE [exc |-> NoExc,
        instrument_labels |-> iterate_all(labels_assigned(id, m, given).instrument_labels).after,
        pre_instrument_labels |->
          [j \in DOMAIN iterate_all(labels_assigned(id, m, given).instrument_labels).yielded |->
             <<id, iterate_all(labels_assigned(id, m, given).instrument_labels).yielded[j]>>],
        reads |-> <<>>]

\* Solver(..., instrument_labels=...) as far as the labels go
LabelsConstruct ==
  /\ arg # None
  /\ out = None
  /\ out' = Some(labels_constructed(The(arg).id, The(arg).m, The(arg).instrument_labels))
  /\ UNCHANGED <<cfgVars, objVars, ctlVars, registry, ctor_result, ctor_args, arg>>

\* a read of self.instrument_labels after construction, to its end: the row
\* index of jacobian (line 1315), or a user's list(solver.instrument_labels)
LabelsRead ==
  /\ out # None
  /\ The(out).exc = NoExc
  /\ Len(The(out).reads) < MaxReads
  /\ out' = Some([The(out) EXCEPT
                    !.reads = Append(@, iterate_all(The(out).instrument_labels).yielded),
                    !.instrument_labels = iterate_all(The(out).instrument_labels).after])
  /\ UNCHANGED <<cfgVars, objVars, ctlVars, registry, ctor_result, ctor_args, arg>>

----------------------------------------------------------------------------
(* grad_f_vT_pre on constructed solvers.  A rate is named by the chain-wide *)
(* label of its instrument: the solver's id and the instrument's label.     *)

\* the deepest dependency chain built for grad_f_vT_pre
MaxDepth == 3

\* solver.r of the constructed solver k: one rate for each own instrument
solver_r(k) == [j \in 1..registry[k].m |-> <<k, registry[k].instrument_labels[j]>>]

RECURSIVE rates_pre_loop(_, _)
\* lines 556-557: rates_pre += [rate for rate in solver.r], link after link
rates_pre_loop(rates_pre, ps) ==
  IF ps = <<>> THEN rates_pre
  ELSE rates_pre_loop(PlusEq(rates_pre, solver_r(Head(ps))), Tail(ps))

\* lines 555-558: the rates of the links, then the solver's own
rates_pre_of(k) == PlusEq(rates_pre_loop(<<>>, registry[k].pre_solvers), solver_r(k))

RECURSIVE grad_s_vT_pre_raises(_)
\* whether the property grad_s_vT_pre of solver k raises: in a link's
\* property, read at line 603, or in the assembly of the solver's own array
grad_s_vT_pre_raises(k) ==
  IF registry[k].pre_solvers = <<>> THEN FALSE
  ELSE \/ \E q \in DOMAIN registry[k].pre_solvers :
            grad_s_vT_pre_raises(registry[k].pre_solvers[q])
       \/ grad_s_vT_pre_array(
            [q \in DOMAIN registry[k].pre_solvers |->
               [m |-> registry[registry[k].pre_solvers[q]].pre_m,
                n |-> registry[registry[k].pre_solvers[q]].pre_n]],
            [m |-> registry[k].m, n |-> registry[k].n]).exc # NoExc

\* grad_f_vT_pre(fx_vars) of solver k: the rates it assembles, and the error
\* of the property or of np.matmul(grad_f_rT, self.grad_s_vT_pre), whose
\* second argument has pre_m rows
grad_f_vT_pre_of(k) ==
  [method |-> "grad_f_vT_pre",
   solver |-> k,
   rates_pre |-> rates_pre_of(k),
   exc |-> IF grad_s_vT_pre_raises(k)
             THEN ValueError("could not broadcast input array")
           ELSE IF Len(rates_pre_of(k)) # registry[k].pre_m
             THEN ValueError("matmul: Input operand 1 has a mismatch in its core dimension 0")
           ELSE NoExc]

\* a solver of one curve and one or two instruments constructed on solvers
\* constructed before, where the constructor accepts the arguments
DeepConstruct ==
  /\ Len(registry) < MaxDepth
  /\ out = None
  /\ \E cs \in {<<"o1">>, <<"o3">>, <<"o4">>}, ps \in SeqsUpTo(DOMAIN registry, MaxPre) :
       /\ ~HasDuplicate(Collected(cs, ps).curve_collection)
       /\ ConstructFrom(cs, ps, AggregateOf(cs, ps))

\* grad_f_vT_pre(fx_vars) read on a constructed solver, as delta does
\* (_delta_fx_arr_local)
GradFvTPre ==
  /\ out = None
  /\ \E k \in DOMAIN registry : out' = Some(grad_f_vT_pre_of(k))
  /\ UNCHANGED <<cfgVars, objVars, ctlVars, registry, ctor_result, ctor_args, arg>>

\* the property grad_s_vT_pre of a solver with pre-solvers, uncached
AssembleBlocks ==
  /\ arg # None
  /\ out = None
  /\ The(arg).method = "grad_s_vT_pre"
  /\ out' = Some(grad_s_vT_pre_array(The(arg).links, The(arg).own))
  /\ UNCHANGED <<cfgVars, objVars, ctlVars, registry, ctor_result, ctor_args, arg>>

----------------------------------------------------------------------------
(* The constructor's validation of lengths (lines 128-149)                 *)

\* a test of the weights that is never made
validate_lengths_no_weights(m, a) ==
  IF Len(a.s) # m
    THEN ValueError("instrument_rates must be same length as instruments.")
  ELSE IF a.instrument_labels # None /\ m # Len(The(a.instrument_labels))
    THEN ValueError("instrument_labels must have length instruments.")
  ELSE NoExc

\* the three tests in the order __init__ makes them, for m = len(instruments)
\* and the arguments s, instrument_labels and weights
validate_lengths(m, a) ==
  IF Len(a.s) # m
    THEN ValueError("instrument_rates must be same length as instruments.")
  ELSE IF a.instrument_labels # None /\ m # Len(The(a.instrument_labels))
    THEN ValueError("instrument_labels must have length instruments.")
  ELSE IF a.weights # None /\ Len(The(a.weights)) # m
    THEN ValueError("weights must be same length as instruments.")
  ELSE NoExc

\* lines 128-149 of __init__ on the arguments ctor_args: the constructor
\* raises, or the object under construction gets its targets and its weights,
\* np.ones(len(instruments)) when none are given
Validate ==
  /\ pc = "new"
  /\ IF validate_lengths(Len(instruments), ctor_args) # NoExc
     THEN /\ pc' = "aborted"
          /\ status' = "raised"
          /\ result' = [result EXCEPT !.exc = validate_lengths(Len(instruments), ctor_args)]
          /\ UNCHANGED <<s, weights>>
     ELSE /\ s' = [s EXCEPT !["main"] = [k \in DOMAIN ctor_args.s |-> Float(ctor_args.s[k])]]
          /\ weights' = IF ctor_args.weights = None
                         THEN [k \in 1..Len(instruments) |-> 1]
                         ELSE The(ctor_args.weights)
          /\ pc' = "init"
          /\ UNCHANGED <<status, result>>
  /\ UNCHANGED <<algorithm, max_iter, func_tol, conv_tol, fx, pre_solvers, instruments,
                 grad_s_vT_method, ad, cache, curves, fx_ad, f_prev, f_list, lambd,
                 i, caller, events, nsteps, last_v1, ctorVars>>

----------------------------------------------------------------------------
(* __init__ from its first line to its call of iterate, on curves that have *)
(* a state: the curves handed over are named in The(arg).curves, the        *)
(* element of instruments in The(arg).value                                 *)

RECURSIVE set_order_each(_, _, _)
\* lines 153-154: for curve in self.curves.values(): curve._set_ad_order(1)
set_order_each(cv, cs, order) ==
  IF cs = <<>> THEN cv
  ELSE set_order_each([cv EXCEPT ![Head(cs)] = curve_set_ad_order(@, order)],
                      Tail(cs), order)

RECURSIVE curves_of_links(_)
\* lines 166-175: the curves of the pre-solvers, collected
curves_of_links(ps) ==
  IF ps = <<>> THEN <<>> ELSE SolverCurves(Head(ps)) \o curves_of_links(Tail(ps))

\* lines 178-179: two curves of the collection have one id
duplicate_id(collection) ==
  \E p, q \in DOMAIN collection : p < q /\ collection[p] = collection[q]

\* the error __init__ raises before its call of iterate, in the order of its
\* tests: the lengths (lines 132-148), the ids (178-184), the instrument
\* tuple (191)
init_error(a, cs, ps, value, selffx) ==
  IF validate_lengths(1, a) # NoExc THEN validate_lengths(1, a)
  ELSE IF duplicate_id(curves_of_links(ps) \o cs)
    THEN ValueError("curves must each have their own unique id")
  ELSE parse_instrument("main", selffx, value).exc

\* the curves when __init__ raises or reaches line 197: untouched when a
\* length test raised, set to order 1 by line 154 otherwise
init_curves(cv, a, cs) ==
  IF validate_lengths(1, a) # NoExc THEN cv ELSE set_order_each(cv, cs, 1)

\* Solver(curves=cs, instruments=[value], s=..., pre_solvers=...) up to its
\* call of iterate
ConstructOrRefuse ==
  /\ pc = "new"
  /\ curves' = init_curves(curves, ctor_args, The(arg).curves)
  /\ IF init_error(ctor_args, The(arg).curves, pre_solvers, The(arg).value, fx) # NoExc
     THEN /\ pc' = "aborted"
          /\ status' = "raised"
          /\ result' = [result EXCEPT
                          !.exc = init_error(ctor_args, The(arg).curves, pre_solvers,
                                             The(arg).value, fx)]
          /\ UNCHANGED <<s, weights>>
     ELSE /\ s' = [s EXCEPT !["main"] = [k \in DOMAIN ctor_args.s |-> Float(ctor_args.s[k])]]
          /\ weights' = IF ctor_args.weights = None
                         THEN [k \in 1..Len(instruments) |-> 1]
                         ELSE The(ctor_args.weights)
          /\ pc' = "init"
          /\ UNCHANGED <<status, result>>
  /\ UNCHANGED <<algorithm, max_iter, func_tol, conv_tol, fx, pre_solvers, instruments,
                 grad_s_vT_method, ad, cache, fx_ad, f_prev, f_list, lambd,
                 i, caller, events, nsteps, last_v1, ctorVars>>

----------------------------------------------------------------------------
(* jacobian *)

\* the targets of every solver replaced
jacobian_begin_all_solvers(w, sid, t) ==
  reset_properties([w EXCEPT !.s = [x \in DOMAIN @ |-> [k \in 1..M(x) |-> Float(t)]]],
                   sid, FALSE)

\* lines 1304-1307: the targets replaced by the rates of the own instruments in
\* the context of the other solver, each a float t, and the caches reset
jacobian_begin(w, sid, t) ==
  reset_properties([w EXCEPT !.s[sid] = [k \in 1..M(sid) |-> Float(t)]], sid, FALSE)

\* jacobian(solver) up to its call of iterate, where the own instruments have
\* the rate t in the other solver's context
Jacobian ==
  /\ pc = "idle"
  /\ \E t \in TargetVals :
       /\ Commit(iterate_begin(jacobian_begin(World, "main", t), "main"))
       /\ events' = iterate_begin(jacobian_begin(World, "main", t), "main").ev
  /\ f_list' = <<>>
  /\ i' = 0
  /\ caller' = "jacobian"
  /\ pc' = "iterate"
  /\ status' = "running"
  /\ result' = [op |-> "jacobian", exc |-> NoExc, base |-> FALSE, fxarg |-> FALSE]
  /\ nsteps' = 0
  /\ last_v1' = None
  /\ UNCHANGED <<cfgVars, ctorVars>>

\* the solver jacobian is handed: one constructed on its own curve
Other == "pre"

\* the element of the other solver's instruments as its constructor was handed
\* it: a plain instrument unless the run names another form
OtherValue ==
  IF arg # None /\ "value" \in DOMAIN The(arg) THEN The(arg).value
  ELSE Py("Instrument", <<>>)

\* solver.instruments of the other solver: what its _parse_instrument stored
OtherInstruments == <<parse_instrument(Other, FxOf(Other), OtherValue).ret>>

\* the rate of an instrument of the given kind priced in the context of the
\* solver ctx: off that solver's curve, differentiable in that curve's nodes
RateIn(w, ctx, kind) ==
  LET nd == SolvedNodes(w.curves[SolverCurves(ctx)[1]])[1]
  IN [real |-> Price(kind, nd.real), grad |-> Slope(kind, nd.real),
      order |-> nd.order, at |-> nd.real, vars |-> nd.vars]

\* the keyword arguments with the calling solver put last
jacobian_kwargs_self_last(self, kwargs) == DictSet(kwargs, "solver", self)

\* {"solver": self, **_[2]}
jacobian_kwargs(self, kwargs) == DictUpdate(<<<<"solver", self>>>>, kwargs)

\* lines 1309-1311: each instrument of the other solver priced with the merged
\* keyword arguments; the pricing context is what they hold under 'solver'
jacobian_rates(w, self, stored) ==
  [k \in DOMAIN stored |->
     [solver |-> DictGet(jacobian_kwargs(self, stored[k][3].items), "solver"),
      rate |-> RateIn(w, DictGet(jacobian_kwargs(self, stored[k][3].items), "solver"),
                      InstrumentsOf(Other)[k])]]

\* lines 1309-1317: the other solver's instruments priced, self.grad_s_vT read
JacobianEnd ==
  /\ pc = "jacobian"
  /\ Commit(prop_grad_s_vT(World, "main"))
  /\ result' = [result EXCEPT !.exc = prop_grad_s_vT(World, "main").exc]
  /\ out' = Some([method |-> "jacobian",
                  rates |-> jacobian_rates(World, "main", OtherInstruments)])
  /\ pc' = "idle"
  /\ UNCHANGED <<cfgVars, f_list, i, caller, status, events, nsteps, last_v1,
                 registry, ctor_result, ctor_args, arg>>

----------------------------------------------------------------------------
(* _grad_s_s_vT_fwd_difference_method.  The targets are floats, and a sum   *)
(* of floats is rounded to the significand: the model's floats are the      *)
(* naturals of at most FloatBits significant bits, rounded to nearest, ties *)
(* to even.                                                                 *)

FloatBits == 3

RECURSIVE ulp(_)
\* the spacing of the floats around x >= 0
ulp(x) == IF x < 2 ^ FloatBits THEN 1 ELSE 2 * ulp(x \div 2)

\* x >= 0 rounded to a float
fl(x) ==
  LET u == ulp(x)
      q == x \div u
      r == x % u
  IN IF 2 * r < u \/ (2 * r = u /\ q % 2 = 0) THEN q * u ELSE (q + 1) * u

\* x + y and x - y on floats
float_add(x, y) == fl(x + y)
float_sub(x, y) == fl(x - y)

\* ds = 10 ** (int(dual_log(self.func_tol, 10) / 2)), for 1 <= func_tol < 10000
ds_of(ftol) == IF ftol < 100 THEN 1 ELSE 10

\* self.s[i] += ds and self.s[i] -= ds
s_plus(w, sid, k, d) == [w EXCEPT !.s[sid][k] = Float(float_add(@.real, d))]
s_minus(w, sid, k, d) == [w EXCEPT !.s[sid][k] = Float(float_sub(@.real, d))]

\* a call of self.iterate() from a method, to return to the method at c
CallIterate(w, c) ==
  /\ Commit(iterate_begin(w, "main"))
  /\ events' = iterate_begin(w, "main").ev
  /\ f_list' = <<>>
  /\ i' = 0
  /\ caller' = c
  /\ pc' = "iterate"
  /\ status' = "running"
  /\ nsteps' = 0
  /\ last_v1' = None

\* lines 692-698: the sensitivity copied, the first target perturbed, the
\* solver re-solved
FwdDifferenceBegin ==
  /\ pc = "idle"
  /\ arg = None
  /\ M("main") >= 1
  /\ arg' = Some([method |-> "_grad_s_s_vT_fwd_difference_method", k |-> 1,
                  ds |-> ds_of(func_tol), s0 |-> s["main"]])
  /\ CallIterate(s_plus(prop_grad_s_vT(World, "main"), "main", 1, ds_of(func_tol)),
                 "fwd_difference")
  /\ result' = [op |-> "_grad_s_s_vT_fwd_difference_method", exc |-> NoExc,
                base |-> FALSE, fxarg |-> FALSE]
  /\ UNCHANGED <<cfgVars, registry, ctor_result, ctor_args, out>>

\* lines 699-700 and either the next pass (lines 697-698) or line 704: the
\* sensitivity read, the perturbation taken off, and the next target
\* perturbed or the solver re-solved for the last time
FwdDifferenceLoop ==
  /\ pc = "fwd_difference"
  /\ IF The(arg).k < M("main")
     THEN /\ CallIterate(
               s_plus(s_minus(prop_grad_s_vT(World, "main"), "main", The(arg).k,
                              The(arg).ds),
                      "main", The(arg).k + 1, The(arg).ds),
               "fwd_difference")
          /\ arg' = Some([The(arg) EXCEPT !.k = @ + 1])
     ELSE /\ CallIterate(
               s_minus(prop_grad_s_vT(World, "main"), "main", The(arg).k, The(arg).ds),
               "fwd_difference_final")
          /\ UNCHANGED arg
  /\ UNCHANGED <<cfgVars, result, registry, ctor_result, ctor_args, out>>

\* line 706: the array returned
FwdDifferenceEnd ==
  /\ pc = "fwd_difference_final"
  /\ pc' = "idle"
  /\ out' = Some([method |-> "_grad_s_s_vT_fwd_difference_method"])
  /\ UNCHANGED <<cfgVars, objVars, i, caller, status, result, events, nsteps,
                 last_v1, registry, ctor_result, ctor_args, arg>>

----------------------------------------------------------------------------
(* Specifications *)

InitCurve(cid, x) ==
  [nodes |-> <<Node(1, <<cid, 0>>, 1), Node(x, <<cid, 1>>, 1)>>, ad |-> 1]

\* the state of a solver under construction when __init__ reaches its call of
\* iterate (line 197), for the arguments drawn from the given sets; a
\* pre-solver is a solver constructed before, solved to its target
InitFrom(algs, iters, ftols, ctols, wts, fxs, pres, kinds, methods, v0s, ts) ==
  /\ algorithm \in algs
  /\ max_iter \in iters
  /\ func_tol \in ftols
  /\ conv_tol \in ctols
  /\ weights \in {<<x>> : x \in wts}
  /\ fx \in fxs
  /\ pre_solvers \in pres
  /\ instruments \in {<<k>> : k \in kinds}
  /\ grad_s_vT_method \in methods
  /\ \E v0 \in v0s, t \in ts :
       /\ s = [sid \in Solvers |-> IF sid = "main" THEN <<Float(t)>> ELSE <<Float(2)>>]
       /\ curves = [cid \in CurveIds |-> IF cid = "c1" THEN InitCurve(cid, v0)
                                          ELSE InitCurve(cid, 2)]
  /\ ad = [sid \in Solvers |-> 1]
  /\ cache = [sid \in Solvers |-> EmptyCache]
  /\ fx_ad = 1
  /\ f_prev = F_PREV_INIT
  /\ f_list = <<>>
  /\ lambd = LAMBD_INIT * LambdUnit
  /\ pc = "init"
  /\ i = 0
  /\ caller = "__init__"
  /\ status = "none"
  /\ result = [op |-> "__init__", exc |-> NoExc, base |-> FALSE, fxarg |-> FALSE]
  /\ events = <<>>
  /\ nsteps = 0
  /\ last_v1 = None
  /\ registry = <<>>
  /\ ctor_result = [exc |-> NoExc, curves |-> <<>>, pre_solvers |-> <<>>]
  /\ ctor_args = [s |-> [k \in DOMAIN s["main"] |-> s["main"][k].real],
                  instrument_labels |-> None, weights |-> Some(weights)]

\* the engine: every operation, on weighted solvers that stand alone, on one
\* whose only instrument has weight 0, on one with a pre-solver, and on one
\* whose budget of cycles runs out
Init ==
  /\ \/ InitFrom({"gauss_newton"}, {MaxIterBound}, {1}, {9}, {1}, {NoFx, "fxf"},
                 {<<>>}, {"linear"}, Methods, {0}, {1})
     \/ InitFrom({"gauss_newton"}, {MaxIterBound}, {1}, {9}, {0}, {NoFx},
                 {<<>>}, {"linear"}, {"_grad_s_vT_final_iteration_analytical"}, {0}, {1})
     \/ InitFrom({"gauss_newton"}, {MaxIterBound}, {1}, {9}, {1}, {"fxf"}, {<<"pre">>},
                 {"linear"}, {"_grad_s_vT_fixed_point_iteration"}, {0}, {1})
     \/ InitFrom({"gauss_newton"}, {1}, {1}, {9}, {1}, {NoFx}, {<<>>},
                 {"linear"}, {"_grad_s_vT_final_iteration_analytical"}, {0}, {1})
  /\ arg = None
  /\ out = None

Next ==
  \/ IterateBegin
  \/ IterateCycle
  \/ IterateExhaust
  \/ SetAdOrder
  \/ GetJ2
  \/ GetJ2Pre
  \/ GetGradSvT
  \/ FinalIterationDual
  \/ FixedPointIteration
  \/ Delta
  \/ Gamma

Spec == Init /\ [][Next]_vars

\* the iteration controller alone, on every algorithm, budget, tolerance and
\* instrument of the model, and levenberg_marquardt from a start far from the
\* target
IterInit ==
  /\ \/ InitFrom(Algorithms, 0..MaxIterBound, FuncTols, ConvTols, WeightVals, {NoFx, "fxf"},
                 {<<>>}, InstrumentKinds, {"_grad_s_vT_final_iteration_analytical"},
                 NodeInits, TargetVals)
     \/ InitFrom({"levenberg_marquardt"}, {MaxIterBound}, FuncTols, {1}, {1}, {NoFx},
                 {<<>>}, InstrumentKinds, {"_grad_s_vT_final_iteration_analytical"},
                 {300}, TargetVals)
  /\ arg = None
  /\ out = None

IterNext ==
  \/ IterateBegin
  \/ IterateCycle
  \/ IterateExhaust

IterSpec == IterInit /\ [][IterNext]_vars

\* the forward-difference method on a constructed solver of one linear
\* instrument, with targets inside a binade and on a binade's lower edge
FwdInit ==
  /\ InitFrom({"gauss_newton"}, {1, MaxIterBound}, FuncTols, {1}, {1}, {NoFx}, {<<>>},
              {"linear"}, {"_grad_s_vT_final_iteration_analytical"}, NodeInits,
              {3, 2 ^ FloatBits})
  /\ arg = None
  /\ out = None

FwdNext ==
  \/ IterateBegin
  \/ IterateCycle
  \/ IterateExhaust
  \/ FwdDifferenceBegin
  \/ FwdDifferenceLoop
  \/ FwdDifferenceEnd

FwdSpec == FwdInit /\ [][FwdNext]_vars

\* the constructor's validation alone, solver after solver
CtorInit ==
  /\ InitFrom({"gauss_newton"}, {MaxIterBound}, {1}, {9}, {1}, {NoFx}, {<<>>},
              {"linear"}, {"_grad_s_vT_final_iteration_analytical"}, {0}, {1})
  /\ arg = None
  /\ out = None

CtorNext == Construct

CtorSpec == CtorInit /\ [][CtorNext]_vars

ChainNext == ChainConstruct

\* dependency chains, solver after solver
ChainSpec == CtorInit /\ [][ChainNext]_vars

DeepNext ==
  \/ DeepConstruct
  \/ GradFvTPre

\* grad_f_vT_pre on dependency chains of every depth up to MaxDepth
DeepSpec == CtorInit /\ [][DeepNext]_vars

\* the keyword arguments a user hands along with an instrument: each of
\* 'solver', 'fx' and another key is absent or has one of its values
KwargsGiven ==
  {Py("dict", SelectSeq(<<<<"solver", a>>, <<"fx", b>>, <<"other_arg", c>>>>,
                        LAMBDA e : e[2] # "absent")) :
     a \in {"absent", "main", "other"}, b \in {"absent", NoFx, "fxo"}, c \in {"absent", "10.0"}}

\* an element of the constructor's instruments: an instrument, a 3-tuple of an
\* instrument, positional args or None and keyword args or None, or a tuple of
\* another length
InstrumentValues ==
  {Py("Instrument", <<>>),
   Py("tuple", <<Py("Instrument", <<>>), Py("None", <<>>)>>),
   Py("tuple", <<Py("Instrument", <<>>), Py("None", <<>>), Py("None", <<>>), Py("None", <<>>)>>)}
  \cup {Py("tuple", <<Py("Instrument", <<>>), a, k>>) :
          a \in {Py("None", <<>>), Py("tuple", <<>>), Py("tuple", <<"curve">>)},
          k \in {Py("None", <<>>)} \cup KwargsGiven}

\* _parse_instrument alone: the solver main, with or without an FX object, is
\* handed an element of its instruments
ParseInit ==
  /\ InitFrom({"gauss_newton"}, {MaxIterBound}, {1}, {9}, {1}, {NoFx, "fxf"}, {<<>>},
              {"linear"}, {"_grad_s_vT_final_iteration_analytical"}, {0}, {1})
  /\ arg \in {Some([self |-> "main", fx |-> fx, value |-> v]) : v \in InstrumentValues}
  /\ out = None

ParseNext == ParseInstrument

ParseSpec == ParseInit /\ [][ParseNext]_vars

\* the forms of an instrument the other solver was constructed with: the
\* accepted ones that name no third solver
OtherValues ==
  {v \in InstrumentValues :
     /\ v.py = "tuple" => Len(v.items) = 3
     /\ ~(v.py = "tuple" /\ v.items[3].py = "dict"
            /\ \E j \in DOMAIN v.items[3].items : v.items[3].items[j] = <<"solver", "other">>)}

\* the cache of the other solver after the converging cycle of its
\* construction: the objective and what it reads, at its solved curve
OtherSolvedCache ==
  prop_f([s |-> [sid \in Solvers |-> <<Float(2)>>],
          ad |-> [sid \in Solvers |-> 1],
          cache |-> [sid \in Solvers |-> EmptyCache],
          curves |-> [cid \in CurveIds |-> InitCurve(cid, 2)],
          fx_ad |-> 1, f_prev |-> 0, lambd |-> 0, exc |-> NoExc, v_1 |-> <<>>,
          ev |-> <<>>, ret |-> None], Other).cache[Other]

\* jacobian on a constructed solver, handed another solver that was
\* constructed on its own curve with one instrument in any accepted form
JacInit ==
  /\ algorithm = "gauss_newton"
  /\ max_iter \in {1, MaxIterBound}
  /\ func_tol = 1
  /\ conv_tol = 9
  /\ weights = <<1>>
  /\ fx \in {NoFx, "fxf"}
  /\ pre_solvers = <<>>
  /\ instruments = <<"linear">>
  /\ grad_s_vT_method = "_grad_s_vT_final_iteration_analytical"
  /\ s = [sid \in Solvers |-> IF sid = "main" THEN <<Float(1)>> ELSE <<Float(2)>>]
  /\ curves = [cid \in CurveIds |-> IF cid = "c1" THEN InitCurve(cid, 0)
                                     ELSE InitCurve(cid, 2)]
  /\ ad = [sid \in Solvers |-> 1]
  /\ cache = [sid \in Solvers |->
                IF sid = Other THEN OtherSolvedCache ELSE EmptyCache]
  /\ fx_ad = 1
  /\ f_prev = F_PREV_INIT
  /\ f_list = <<>>
  /\ lambd = LAMBD_INIT * LambdUnit
  /\ pc = "init"
  /\ i = 0
  /\ caller = "__init__"
  /\ status = "none"
  /\ result = [op |-> "__init__", exc |-> NoExc, base |-> FALSE, fxarg |-> FALSE]
  /\ events = <<>>
  /\ nsteps = 0
  /\ last_v1 = None
  /\ registry = <<>>
  /\ ctor_result = [exc |-> NoExc, curves |-> <<>>, pre_solvers |-> <<>>]
  /\ ctor_args = [s |-> <<1>>, instrument_labels |-> None, weights |-> Some(<<1>>)]
  /\ arg \in {Some([method |-> "jacobian", value |-> v]) : v \in OtherValues}
  /\ out = None

JacNext ==
  \/ IterateBegin
  \/ IterateCycle
  \/ IterateExhaust
  \/ Jacobian
  \/ JacobianEnd

JacSpec == JacInit /\ [][JacNext]_vars

\* the array with x at the index tuples of S and 0 elsewhere
Units(r, S, x) == Arr(r, LAMBDA idx : IF idx \in S THEN x ELSE 0)

\* the second-order methods alone: the analytical one on a J2 symmetric in its
\* two variable axes and any grad_s_vT of zeros and ones, the forward
\* difference one on differences that fill one or two elements
TensorInit ==
  /\ InitFrom({"gauss_newton"}, {MaxIterBound}, {1}, {9}, {1}, {NoFx}, {<<>>},
              {"linear"}, {"_grad_s_vT_final_iteration_analytical"}, {0}, {1})
  /\ arg \in
       {Some([method |-> "analytical",
              J2 |-> Units(3, {q, [q EXCEPT ![1] = q[2], ![2] = q[1]]}, 1),
              grad_s_vT |-> g, raw |-> <<>>]) :
          q \in [1..3 -> 1..TensorDim], g \in [[1..2 -> 1..TensorDim] -> {0, 1}]}
       \cup
       {Some([method |-> "fwd_difference", J2 |-> <<>>, grad_s_vT |-> <<>>,
              raw |-> Units(3, {q1, q2}, x)]) :
          q1 \in [1..3 -> 1..TensorDim], q2 \in [1..3 -> 1..TensorDim], x \in {1, 2}}
  /\ out = None

TensorNext ==
  \/ AnalyticalContraction
  \/ FwdDifferenceSymmetrise

TensorSpec == TensorInit /\ [][TensorNext]_vars

\* grad_s_vT_pre alone: a solver of one to three instruments and as many
\* variables, on one to MaxPre links of one or two chain-wide instruments and
\* one or two chain-wide variables
BlockInit ==
  /\ InitFrom({"gauss_newton"}, {MaxIterBound}, {1}, {9}, {1}, {NoFx}, {<<>>},
              {"linear"}, {"_grad_s_vT_final_iteration_analytical"}, {0}, {1})
  /\ arg \in
       {Some([method |-> "grad_s_vT_pre", links |-> ls, own |-> [m |-> d, n |-> d]]) :
          ls \in SeqsUpTo([m : 1..2, n : 1..2], MaxPre) \ {<<>>}, d \in 1..3}
  /\ out = None

BlockNext == AssembleBlocks

BlockSpec == BlockInit /\ [][BlockNext]_vars

\* the longest list of targets, labels or weights a constructor is handed
MaxArgLen == 2

\* a constructor call at its first line, with one instrument, one curve and
\* the arguments s, instrument_labels and weights in ctor_args
LenInit ==
  /\ algorithm = "gauss_newton"
  /\ max_iter \in {1, MaxIterBound}
  /\ func_tol = 1
  /\ conv_tol = 9
  /\ weights = <<>>
  /\ fx = NoFx
  /\ pre_solvers = <<>>
  /\ instruments = <<"linear">>
  /\ grad_s_vT_method = "_grad_s_vT_final_iteration_analytical"
  /\ s = [sid \in Solvers |-> IF sid = "main" THEN <<>> ELSE <<Float(2)>>]
  /\ curves = [cid \in CurveIds |-> IF cid = "c1" THEN InitCurve(cid, 0)
                                     ELSE InitCurve(cid, 2)]
  /\ ad = [sid \in Solvers |-> 1]
  /\ cache = [sid \in Solvers |-> EmptyCache]
  /\ fx_ad = 1
  /\ f_prev = F_PREV_INIT
  /\ f_list = <<>>
  /\ lambd = LAMBD_INIT * LambdUnit
  /\ pc = "new"
  /\ i = 0
  /\ caller = "__init__"
  /\ status = "none"
  /\ result = [op |-> "__init__", exc |-> NoExc, base |-> FALSE, fxarg |-> FALSE]
  /\ events = <<>>
  /\ nsteps = 0
  /\ last_v1 = None
  /\ registry = <<>>
  /\ ctor_result = [exc |-> NoExc, curves |-> <<>>, pre_solvers |-> <<>>]
  /\ ctor_args \in
       [s : SeqsUpTo(TargetVals, MaxArgLen),
        instrument_labels : {None} \cup {Some(q) : q \in SeqsUpTo({"lbl"}, MaxArgLen)},
        weights : {None} \cup {Some(q) : q \in SeqsUpTo(WeightVals, MaxArgLen)}]
  /\ arg = None
  /\ out = None

\* the labels alone: a solver of no to MaxArgLen instruments, constructed
\* with no labels or with labels of any length up to MaxArgLen
LabelsInit ==
  /\ InitFrom({"gauss_newton"}, {MaxIterBound}, {1}, {9}, {1}, {NoFx}, {<<>>},
              {"linear"}, {"_grad_s_vT_final_iteration_analytical"}, {0}, {1})
  /\ arg \in {Some([method |-> "instrument_labels", id |-> id, m |-> m,
                     instrument_labels |-> g]) :
               id \in {"v", "w"}, m \in 0..MaxArgLen,
               g \in {None} \cup {Some(q) : q \in SeqsUpTo({"x", "y"}, MaxArgLen)}}
  /\ out = None

LabelsNext ==
  \/ LabelsConstruct
  \/ LabelsRead

LabelsSpec == LabelsInit /\ [][LabelsNext]_vars

\* a constructor call at its first line: one instrument in any form, targets
\* of any length up to MaxArgLen, the curve c1 once or twice or with the
\* curve of the pre-solver, each curve at any differentiation order
RefuseInit ==
  /\ algorithm = "gauss_newton"
  /\ max_iter \in {1, MaxIterBound}
  /\ func_tol = 1
  /\ conv_tol = 9
  /\ weights = <<>>
  /\ fx = NoFx
  /\ pre_solvers \in {<<>>, <<"pre">>}
  /\ instruments = <<"linear">>
  /\ grad_s_vT_method = "_grad_s_vT_final_iteration_analytical"
  /\ s = [sid \in Solvers |-> IF sid = "main" THEN <<>> ELSE <<Float(2)>>]
  /\ curves \in {[cid \in CurveIds |->
                    IF cid = "c1" THEN curve_set_ad_order(InitCurve(cid, 0), a1)
                    ELSE curve_set_ad_order(InitCurve(cid, 2), a0)] :
                  a1 \in 0..2, a0 \in 1..2}
  /\ ad = [sid \in Solvers |-> 1]
  /\ cache = [sid \in Solvers |-> EmptyCache]
  /\ fx_ad = 1
  /\ f_prev = F_PREV_INIT
  /\ f_list = <<>>
  /\ lambd = LAMBD_INIT * LambdUnit
  /\ pc = "new"
  /\ i = 0
  /\ caller = "__init__"
  /\ status = "none"
  /\ result = [op |-> "__init__", exc |-> NoExc, base |-> FALSE, fxarg |-> FALSE]
  /\ events = <<>>
  /\ nsteps = 0
  /\ last_v1 = None
  /\ registry = <<>>
  /\ ctor_result = [exc |-> NoExc, curves |-> <<>>, pre_solvers |-> <<>>]
  /\ ctor_args \in [s : SeqsUpTo({1}, MaxArgLen), instrument_labels : {None},
                     weights : {None}]
  /\ \E cs \in {<<"c1">>, <<"c1", "c1">>, <<"c1", "c0">>},
        v \in {Py("Instrument", <<>>),
               Py("tuple", <<Py("Instrument", <<>>), Py("None", <<>>)>>),
               Py("tuple", <<Py("Instrument", <<>>), Py("None", <<>>), Py("None", <<>>)>>)} :
       /\ cs = <<"c1", "c0">> => pre_solvers = <<"pre">>
       /\ arg = Some([method |-> "__init__", curves |-> cs, value |-> v, before |-> curves])
  /\ out = None

RefuseNext ==
  \/ ConstructOrRefuse
  \/ IterateBegin
  \/ IterateCycle
  \/ IterateExhaust

\* constructor calls that are refused or go on to calibrate
RefuseSpec == RefuseInit /\ [][RefuseNext]_vars

LenNext ==
  \/ Validate
  \/ IterateBegin
  \/ IterateCycle
  \/ IterateExhaust
  \/ GetGradSvT
  \/ FinalIterationDual
  \/ FixedPointIteration
  \/ Jacobian
  \/ JacobianEnd

\* a constructor call from its first line on, and the operations on the solver
\* it constructs
LenSpec == LenInit /\ [][LenNext]_vars

----------------------------------------------------------------------------
(* Properties of iterate, checked under IterSpec *)

\* the objective of the cycle before the last one of the running call, or the
\* value iterate starts f_prev at
PrevObjective == IF Len(f_list) >= 2 THEN f_list[Len(f_list) - 1] ELSE F_PREV_INIT

\* C1 as the specification states it: whenever the objective evaluated on a
\* cycle is below func_tol, iterate terminates on that cycle in the state
\* converged (function-value), whatever the decrease from the previous cycle.
C1_FuncTolDecidesFirst ==
  (f_list # <<>> /\ Last(f_list) < func_tol) => status = "func_tol"

\* C1 amended: whenever the objective evaluated on a cycle is below func_tol,
\* iterate terminates on that cycle; in converged (tolerance) when the
\* objective fell from f_prev by a positive amount smaller than conv_tol, and in
\* converged (function-value) otherwise.
C1_BelowFuncTolTerminates ==
  (f_list # <<>> /\ Last(f_list) < func_tol) =>
    /\ pc = "idle"
    /\ status \in {"conv_tol", "func_tol"}
    /\ status = "conv_tol" <=>
         (Last(f_list) < PrevObjective /\ PrevObjective - Last(f_list) < conv_tol)

\* C1 witness: a second cycle's objective is below func_tol and fell by less
\* than conv_tol, and the call ended in converged (tolerance)
C1_Witness ==
  /\ Len(f_list) >= 2
  /\ Last(f_list) < func_tol
  /\ Last(f_list) < f_list[Len(f_list) - 1]
  /\ f_list[Len(f_list) - 1] - Last(f_list) < conv_tol
  /\ status = "conv_tol"

\* C2: iterate ends in converged (tolerance) only on a cycle that has a
\* previous cycle in the same run, whose objective was strictly higher, by less
\* than conv_tol; the first cycle of a run never ends by tolerance.
C2_ToleranceNeedsPreviousCycle ==
  status = "conv_tol" =>
    /\ Len(f_list) >= 2
    /\ Last(f_list) < f_list[Len(f_list) - 1]
    /\ f_list[Len(f_list) - 1] - Last(f_list) < conv_tol

\* C3: a call of iterate runs at most max_iter cycles, step computations and
\* curve overwrites, runs no longer once it reached a terminal state, and when
\* the budget runs out it returns without raising, the curves at the values of
\* the last step.
C3_BudgetBoundsIterate ==
  /\ i <= max_iter
  /\ nsteps <= max_iter
  /\ Len(f_list) <= max_iter
  /\ pc = "iterate" <=> status = "running"
  /\ status = "max_iter" =>
       /\ pc = "idle"
       /\ result.exc = NoExc
       /\ i = max_iter
       /\ last_v1 # None =>
            The(last_v1) = [k \in DOMAIN SolvedNodes(curves["c1"]) |->
                              SolvedNodes(curves["c1"])[k].real]

\* C3 witness: a call with the largest budget ran out of it, after as many
\* steps
C3_Witness ==
  /\ status = "max_iter"
  /\ max_iter = MaxIterBound
  /\ nsteps = MaxIterBound
  /\ last_v1 # None

\* C9: when a cycle of iterate computes a step with an algorithm name that is
\* none of gradient_descent, gauss_newton, levenberg_marquardt and
\* gauss_newton_final, the call ends with NotImplementedError naming that
\* value, and the curves are as they were before the cycle.
C9_UnknownAlgorithmRaises ==
  [][(/\ pc = "iterate"
      /\ nsteps' = nsteps + 1
      /\ algorithm \notin {"gradient_descent", "gauss_newton", "levenberg_marquardt",
                           "gauss_newton_final"})
     => (/\ status' = "raised"
         /\ result'.exc = NotImplementedError(algorithm)
         /\ curves' = curves
         /\ i' = i)]_vars

\* C9 witness: a call with an unknown name evaluated its objective and ended
\* with the error
C9_Witness ==
  /\ status = "raised"
  /\ result.exc = NotImplementedError("newton_raphson")
  /\ algorithm = "newton_raphson"
  /\ f_list # <<>>

----------------------------------------------------------------------------
(* Properties of the sensitivity strategies, the order switch and the      *)
(* reports, checked under Spec.  A step that changes the state and leaves  *)
(* an operation's name in result is that operation's call.                 *)

\* the solvers of the main solver's dependency chain, itself included
ChainSolvers == {"main"} \cup {pre_solvers[k] : k \in DOMAIN pre_solvers}

\* C4: after the dual-number strategy or the fixed-point strategy ends,
\* normally or by an error, the solver's targets are the targets it held
\* before the call.
C4_TargetsRestored ==
  [][(/\ result'.op \in {"_grad_s_vT_final_iteration_dual",
                         "_grad_s_vT_fixed_point_iteration"}
      /\ vars' # vars)
     => s' = s]_vars

\* C5: after the fixed-point strategy ends, normally or by an error, the
\* solver, every solver of its chain and their curves have the differentiation
\* order they had before the call, whether that was 1 or 2.
C5_FixedPointRestoresOrder ==
  [][(/\ result'.op = "_grad_s_vT_fixed_point_iteration"
      /\ vars' # vars)
     => \A sid \in ChainSolvers :
          /\ ad'[sid] = ad[sid]
          /\ \A k \in DOMAIN SolverCurves(sid) :
               curves'[SolverCurves(sid)[k]].ad = curves[SolverCurves(sid)[k]].ad]_vars

\* C6: a request of J2 or J2_pre made while the solver's order is 1 fails with
\* a state error, also when the tensor was computed at order 2 before.
C6_NoSecondOrderAtOrderOne ==
  (result.op \in {"J2", "J2_pre"} /\ ad["main"] = 1) => result.exc.type = "ValueError"

\* C7: gamma requested at order 1 fails with a state error and changes nothing
\* of the solver; requested at order 2 it succeeds.
C7_GammaFollowsOrder ==
  [][(result'.op = "gamma" /\ vars' # vars)
     => IF ad["main"] = 1
        THEN result'.exc.type = "ValueError" /\ UNCHANGED objVars
        ELSE result'.exc = NoExc]_vars

\* C8: delta, and gamma at order 2, requested with a base currency, no fx
\* argument and no FX object on the solver, fail with the configuration error;
\* requested without a base currency they never fail with it.
C8_BaseNeedsFxSource ==
  (/\ result.op \in {"delta", "gamma"}
   /\ result.exc # ValueError("gamma ad order"))
  => (result.exc = ValueError("base without fx")
        <=> (result.base /\ ~result.fxarg /\ fx = NoFx))

----------------------------------------------------------------------------
(* Properties of the constructor, checked under CtorSpec *)

\* whether the curves of a list have pairwise distinct ids
IdsDistinct(cs) ==
  \A a, b \in DOMAIN cs : a # b => CurveIdOf(cs[a]) # CurveIdOf(cs[b])

RECURSIVE ChainCurvesOf(_), ChainCurvesSeq(_)
\* the curves of a constructed solver and of its whole chain, a solver's
\* curves once for every way it is reached
ChainCurvesOf(k) ==
  ChainCurvesSeq(registry[k].pre_solvers) \o DictValues(registry[k].curves)
ChainCurvesSeq(ps) ==
  IF ps = <<>> THEN <<>> ELSE ChainCurvesOf(Head(ps)) \o ChainCurvesSeq(Tail(ps))

----------------------------------------------------------------------------
(* Properties of the constructor's length validation, checked under LenSpec *)

\* the arguments differ in length from the instruments
LengthMismatch ==
  \/ Len(ctor_args.s) # Len(instruments)
  \/ ctor_args.weights # None /\ Len(The(ctor_args.weights)) # Len(instruments)
  \/ ctor_args.instrument_labels # None
       /\ Len(The(ctor_args.instrument_labels)) # Len(instruments)

\* C11: a constructor call whose targets, weights (when given) or labels (when
\* given) differ in number from the instruments ends in a ValueError before any
\* iteration cycle ran; every other call gives a solver whose targets and
\* weights are as many as its instruments, whatever iterate, sensitivity and
\* jacobian operations follow.
C11_LengthsAgree ==
  /\ (LengthMismatch /\ pc # "new") =>
       /\ pc = "aborted"
       /\ result.op = "__init__"
       /\ result.exc \in {ValueError("instrument_rates must be same length as instruments."),
                          ValueError("instrument_labels must have length instruments."),
                          ValueError("weights must be same length as instruments.")}
       /\ f_list = <<>> /\ nsteps = 0 /\ events = <<>>
  /\ (~LengthMismatch /\ pc # "new") =>
       /\ Len(s["main"]) = Len(instruments)
       /\ Len(weights) = Len(instruments)

\* a solver constructed with defaulted weights, after jacobian replaced its
\* targets and a sensitivity was read
C11_Witness ==
  /\ ctor_args.weights = None
  /\ pc = "idle"
  /\ result.op = "grad_s_vT"
  /\ \E k \in DOMAIN s["main"] : s["main"][k].real # ctor_args.s[k]
  /\ Len(s["main"]) = Len(instruments)

----------------------------------------------------------------------------
(* Properties of the chain-wide sequences, checked under ChainSpec *)

RECURSIVE OwnVariablesOf(_, _), ChainOf(_, _), ChainOfSeq(_, _)
\* the tags of the solver-controlled nodes of the curves in cv, curve by curve
OwnVariablesOf(cv, j) ==
  IF j > Len(cv) THEN <<>>
  ELSE [q \in 1..(CurveN(cv[j][2]) - IniSolve) |-> <<cv[j][1], IniSolve + q - 1>>]
         \o OwnVariablesOf(cv, j + 1)
\* what a solver itself adds to the chain-wide sequence named what
OwnOf(k, what) ==
  CASE what = "variables" -> OwnVariablesOf(registry[k].curves, 1)
    [] what = "labels" -> [j \in 1..registry[k].m |-> <<k, registry[k].instrument_labels[j]>>]
    [] what = "scalars" ->
         [j \in 1..registry[k].m |-> RateScalar(InstrumentsFor(DictValues(registry[k].curves))[j])]
\* the chain-wide sequence of solver k: each link's chain-wide sequence in
\* chain order, the solver's own part last
ChainOf(k, what) == ChainOfSeq(registry[k].pre_solvers, what) \o OwnOf(k, what)
ChainOfSeq(ps, what) ==
  IF ps = <<>> THEN <<>> ELSE ChainOf(Head(ps), what) \o ChainOfSeq(Tail(ps), what)

\* C12: in every constructed solver pre_variables is the concatenation, in
\* chain order, of each link's chain-wide variables followed by the solver's
\* own variables (one tag for each solver-controlled node, curve by curve in
\* registration order); pre_instrument_labels and pre_rate_scalars follow the
\* same order; pre_n and pre_m are the lengths of the chain-wide variables and
\* labels.
C12_ChainSequences ==
  \A k \in DOMAIN registry :
    /\ registry[k].variables = OwnOf(k, "variables")
    /\ registry[k].pre_variables = ChainOf(k, "variables")
    /\ registry[k].pre_instrument_labels = ChainOf(k, "labels")
    /\ registry[k].pre_rate_scalars = ChainOf(k, "scalars")
    /\ registry[k].pre_n = Len(registry[k].pre_variables)
    /\ registry[k].pre_m = Len(registry[k].pre_instrument_labels)
    /\ registry[k].pre_m = Len(registry[k].pre_rate_scalars)

\* a solver on a link that is itself on a link, the three with variables and
\* instruments of their own, one with more instruments than variables
C12_Witness ==
  \E k \in DOMAIN registry :
    /\ registry[k].n > 0
    /\ Len(registry[k].pre_solvers) = 1
    /\ Len(registry[registry[k].pre_solvers[1]].pre_solvers) = 1
    /\ registry[registry[k].pre_solvers[1]].n > 0
    /\ registry[registry[registry[k].pre_solvers[1]].pre_solvers[1]].n > 0
    /\ registry[k].pre_m > registry[k].pre_n

----------------------------------------------------------------------------
(* Properties of _parse_instrument, checked under ParseSpec *)

\* d[k] of a dict that has the key

\* C13: whatever accepted form an instrument is registered in, the keyword
\* arguments of the stored triple hold the owning solver under 'solver' and the
\* owning solver's FX object under 'fx'.
C13_BackReferences ==
  (out # None /\ The(out).exc = NoExc) =>
    /\ Len(The(out).ret) = 3
    /\ DictGet(The(out).ret[3].items, "solver") = The(arg).self
    /\ DictGet(The(out).ret[3].items, "fx") = The(arg).fx

----------------------------------------------------------------------------
(* Properties of the Gauss-Newton step, checked under IterSpec *)

\* a run of gauss_newton on the linear instrument that has returned
LinearRunEnded ==
  /\ algorithm = "gauss_newton"
  /\ instruments = <<"linear">>
  /\ pc = "idle"
  /\ f_list # <<>>
  /\ f_list[1] > 0

----------------------------------------------------------------------------
(* Properties of the second-order arrays, checked under TensorSpec *)

\* C15: grad_s_s_vT is symmetric under exchange of its first two indices, as
\* the three contractions give it from a J2 symmetric in its variable axes and
\* as the forward-difference method returns it.
C15_SymmetricInTargets ==
  out # None =>
    \A idx \in DOMAIN The(out) :
      The(out)[idx] = The(out)[[idx EXCEPT ![1] = idx[2], ![2] = idx[1]]]

\* an analytical result with a nonzero element off the diagonal of its first
\* two indices, from a grad_s_vT that is not symmetric
C15_Witness ==
  /\ out # None
  /\ The(arg).method = "analytical"
  /\ \E q \in DOMAIN The(arg).grad_s_vT :
       The(arg).grad_s_vT[q] # The(arg).grad_s_vT[<<q[2], q[1]>>]
  /\ \E idx \in DOMAIN The(out) : idx[1] # idx[2] /\ The(out)[idx] # 0

----------------------------------------------------------------------------
(* Properties of the Levenberg-Marquardt damping, checked under IterSpec *)

\* C16: under levenberg_marquardt the damping factor starts each run at 1000;
\* at a step it is doubled when the objective of the cycle is worse than the
\* objective of the cycle before, and quartered when it is better or when
\* there is no cycle before.
C16_DampingFollowsObjective ==
  [][/\ (pc # "iterate" /\ pc' = "iterate") => lambd' = LAMBD_INIT * LambdUnit
     /\ (/\ algorithm = "levenberg_marquardt"
         /\ pc = "iterate"
         /\ nsteps' = nsteps + 1) =>
          IF f_list = <<>> \/ Last(f_list') < Last(f_list)
            THEN lambd' = lambd \div 4
          ELSE IF Last(f_list') > Last(f_list)
            THEN lambd' = lambd * 2
          ELSE TRUE]_vars

----------------------------------------------------------------------------
(* Properties of the caches, checked under Spec *)

\* the value of the solver-controlled node of the main solver's curve
NodeNow == curves["c1"].nodes[IniSolve + 1].real

\* C17: when an operation that ends without an exception has returned, every
\* cached quantity of the solver that is still present was computed at the
\* node value the curve holds and from the targets the solver holds: rates,
\* error vector, objective and Jacobian, and the first-order sensitivity (whose
\* strategies tag the targets, so that its targets are compared by value).
C17_CachesAreCurrent ==
  (pc = "idle" /\ result.exc = NoExc) =>
    /\ cache["main"].v # None =>
         \A k \in DOMAIN The(cache["main"].v) : The(cache["main"].v)[k].real = NodeNow
    /\ cache["main"].r # None =>
         \A k \in DOMAIN The(cache["main"].r) : The(cache["main"].r)[k].at = NodeNow
    /\ cache["main"].x # None =>
         \A k \in DOMAIN The(cache["main"].x) :
           /\ The(cache["main"].x)[k].at = NodeNow
           /\ The(cache["main"].x)[k].s = s["main"][k]
    /\ cache["main"].f # None =>
         /\ The(cache["main"].f).at = NodeNow
         /\ The(cache["main"].f).s = s["main"]
    /\ cache["main"].J # None => The(cache["main"].J).at = NodeNow
    /\ cache["main"].grad_s_vT # None =>
         /\ The(cache["main"].grad_s_vT).at = NodeNow
         /\ \A k \in DOMAIN s["main"] :
              The(cache["main"].grad_s_vT).s[k].real = s["main"][k].real

----------------------------------------------------------------------------
(* Properties of grad_s_vT_pre, checked under BlockSpec *)

\* the chain-wide instruments, or variables, of the links before link k
OffsetOf(links, k, what) ==
  SumSeq([j \in 1..(k - 1) |-> IF what = "m" THEN links[j].m ELSE links[j].n])

\* C18: for a solver on k >= 1 links, grad_s_vT_pre has pre_m rows and pre_n
\* columns; link k's chain-wide sensitivity stands on the diagonal at the
\* offsets that are the summed pre_m and pre_n of the links before it, the
\* solver's own grad_s_vT stands last, the coupling block of a link stands in
\* the link's rows and the solver's own variable columns, and the entries of
\* the own rows in upstream columns are zero.
C18_BlockStructure ==
  out # None =>
    LET links == The(arg).links
        own == The(arg).own
        pre_m == own.m + OffsetOf(links, Len(links) + 1, "m")
        pre_n == own.n + OffsetOf(links, Len(links) + 1, "n")
        a == The(out).a
    IN /\ The(out).exc = NoExc
       /\ Len(a) = pre_m
       /\ \A r \in 1..pre_m : Len(a[r]) = pre_n
       /\ \A k \in DOMAIN links :
            /\ \A r \in 1..links[k].m, c \in 1..links[k].n :
                 a[OffsetOf(links, k, "m") + r][OffsetOf(links, k, "n") + c]
                   = [b |-> "link", k |-> k, r |-> r, c |-> c]
            /\ \A r \in 1..links[k].m, c \in 1..own.n :
                 a[OffsetOf(links, k, "m") + r][pre_n - own.n + c]
                   = [b |-> "coupling", k |-> k, r |-> r, c |-> c]
       /\ \A r \in 1..own.m, c \in 1..own.n :
            a[pre_m - own.m + r][pre_n - own.n + c] = [b |-> "own", k |-> 0, r |-> r, c |-> c]
       /\ \A r \in 1..own.m, c \in 1..(pre_n - own.n) :
            a[pre_m - own.m + r][c].b = "zero"

----------------------------------------------------------------------------
(* Properties of the order of a cycle, checked under IterSpec *)

\* a step of the model that is a cycle of iterate in which a step was computed
SteppingCycle == pc = "iterate" /\ nsteps' = nsteps + 1 /\ status' # "raised"
\* a step of the model that is the cycle of iterate that detects convergence
ConvergingCycle == pc = "iterate" /\ status' \in {"conv_tol", "func_tol"}

----------------------------------------------------------------------------
(* The curves iterate writes, checked under Spec *)

\* a step of the model that is part of a run of iterate: its start, a cycle,
\* or the end of the loop
IterateStep == pc = "iterate" \/ (pc # "iterate" /\ pc' = "iterate")

\* C20: during iterate only the solver-controlled nodes (index at or after
\* the offset) of the solver's own curves are overwritten, and each keeps its
\* derivative tags; the nodes before the offset and every node of a
\* dependency-chain curve keep their values, and the curve mapping keeps its
\* curves.
C20_OnlyOwnNodesWritten ==
  [][IterateStep =>
       /\ DOMAIN curves' = DOMAIN curves
       /\ \A cid \in DOMAIN curves :
            /\ DOMAIN curves'[cid].nodes = DOMAIN curves[cid].nodes
            /\ curves'[cid].ad = curves[cid].ad
            /\ \A k \in DOMAIN curves[cid].nodes :
                 IF (\E q \in DOMAIN SolverCurves("main") : SolverCurves("main")[q] = cid) /\ k > IniSolve
                 THEN curves'[cid].nodes[k].vars = curves[cid].nodes[k].vars
                 ELSE curves'[cid].nodes[k] = curves[cid].nodes[k]]_vars

\* C20 witness: a solver on a dependency chain has stepped, its
\* solver-controlled node moved from its start to the target and carries the
\* tag it had
C20_Witness ==
  /\ pre_solvers # <<>>
  /\ nsteps >= 1
  /\ curves["c1"].nodes[IniSolve + 1] = Node(1, <<"c1", 1>>, ad["main"])
  /\ curves["c1"].nodes[IniSolve] = InitCurve("c1", 0).nodes[IniSolve]

----------------------------------------------------------------------------
(* The objective history of a run, checked under IterSpec *)

\* the objective at the node values the curves hold and the targets installed,
\* computed afresh
ObjectiveAt(w) == The(prop_f(reset_properties(w, "main", FALSE), "main").cache["main"].f).real
ObjectiveNow == ObjectiveAt(World)

\* iterate has returned in one of its three terminal states
Returned == pc = "idle" /\ status \in {"func_tol", "conv_tol", "max_iter"}
Converged == pc = "idle" /\ status \in {"func_tol", "conv_tol"}

\* the cycles the run executed: one per step, and the one that converged
CyclesRun == nsteps + (IF status \in {"func_tol", "conv_tol"} THEN 1 ELSE 0)

\* C21, as stated: when iterate has returned in a terminal state, the history
\* holds one entry per cycle executed and its last entry is the objective at
\* the node values the curves hold on return.
C21_HistoryEndsAtReturn ==
  Returned =>
    /\ Len(f_list) = CyclesRun
    /\ f_list # <<>> => Last(f_list) = ObjectiveNow

\* C21, amended: the history holds one entry per cycle executed; after a
\* converged return its last entry is the objective at the nodes held on
\* return; a cycle that steps records the objective at the nodes it started
\* from, and the end of an exhausted budget records nothing, so that after
\* max_iter cycles the history has max_iter entries, the last of them taken
\* before the last step.
C21_HistoryLagsOnExhaustion ==
  /\ [](Returned => Len(f_list) = CyclesRun)
  /\ [](Converged => f_list # <<>> /\ Last(f_list) = ObjectiveNow)
  /\ [](pc = "idle" /\ status = "max_iter" => Len(f_list) = max_iter /\ nsteps = max_iter)
  /\ [][/\ SteppingCycle => f_list' = Append(f_list, ObjectiveNow)
        /\ (pc = "iterate" /\ status' = "max_iter") =>
             f_list' = f_list /\ curves' = curves]_vars

\* C21 witness: a run used up its budget with a last step that moved the node,
\* so that its last entry is no longer the objective at the nodes it returned
C21_Witness ==
  /\ pc = "idle"
  /\ status = "max_iter"
  /\ f_list # <<>>
  /\ Last(f_list) # ObjectiveNow

----------------------------------------------------------------------------
(* The forward-difference method as a round trip, checked under FwdSpec *)

\* the forward-difference method has returned
FwdReturned ==
  /\ pc = "idle"
  /\ caller = "fwd_difference_final"
  /\ out # None

\* C22: after the forward-difference method returns, the target vector equals
\* the target vector before the call, the curves are solved against those
\* targets, and no cached quantity was computed under a perturbed target.
C22_FwdDifferenceRoundTrip ==
  FwdReturned =>
    /\ s["main"] = The(arg).s0
    /\ ObjectiveAt([World EXCEPT !.s["main"] = The(arg).s0]) < func_tol
    /\ cache["main"].x # None =>
         \A k \in DOMAIN The(cache["main"].x) :
           The(cache["main"].x)[k].s = The(arg).s0[k]
    /\ cache["main"].f # None => The(cache["main"].f).s = The(arg).s0

----------------------------------------------------------------------------
(* Properties of jacobian, checked under JacSpec *)

\* a step of the model that is part of a call of jacobian
JacobianStep == result'.op = "jacobian"

\* C23: jacobian(other) leaves other's targets, curve node values and cached
\* quantities as they were; the calling solver's targets are replaced by the
\* rates of its instruments in other's context, its curves are re-solved to
\* them, and the replaced targets stay installed to the return and after it.
C23_JacobianModifiesCallerOnly ==
  [][JacobianStep =>
       /\ s'[Other] = s[Other]
       /\ curves'[SolverCurves(Other)[1]] = curves[SolverCurves(Other)[1]]
       /\ cache'[Other] = cache[Other]
       /\ pc = "idle" => \E t \in TargetVals : s'["main"] = <<Float(t)>>
       /\ pc # "idle" => s'["main"] = s["main"]
       /\ pc = "jacobian" =>
            /\ ObjectiveNow < func_tol
            /\ curves' = curves]_vars

\* C23 witness: a call of jacobian has returned with the targets 3 installed
\* in place of the targets 1 of the construction, the own curve solved to
\* them, the other solver solved and cached as before
C23_Witness ==
  /\ pc = "idle"
  /\ result.op = "jacobian"
  /\ out # None
  /\ s["main"] = <<Float(3)>>
  /\ curves["c1"].nodes[IniSolve + 1].real = 3
  /\ s[Other] = <<Float(2)>>
  /\ curves["c0"] = InitCurve("c0", 2)
  /\ cache[Other] = OtherSolvedCache
  /\ cache[Other].f # None

\* C24: in jacobian(other), each instrument of other is priced with the
\* calling solver as its pricing context, so that its rate depends on the
\* calling solver's curve.
C24_PricedWithCallingSolver ==
  (out # None /\ pc = "idle" /\ result.op = "jacobian") =>
    \A k \in DOMAIN The(out).rates :
      /\ The(out).rates[k].solver = "main"
      /\ The(out).rates[k].rate.vars = curves["c1"].nodes[IniSolve + 1].vars

----------------------------------------------------------------------------
(* Properties of grad_f_vT_pre, checked under DeepSpec *)

\* C25: for a solver on a dependency chain of any depth, the rates that
\* grad_f_vT_pre assembles are pre_m rates, one for each chain-wide instrument
\* in the order of the chain-wide labels, and the contraction with
\* grad_s_vT_pre does not fail on a shape mismatch.
C25_RatesCoverTheChain ==
  (out # None /\ The(out).method = "grad_f_vT_pre") =>
    /\ Len(The(out).rates_pre) = registry[The(out).solver].pre_m
    /\ The(out).rates_pre = registry[The(out).solver].pre_instrument_labels
    /\ The(out).exc # ValueError("matmul: Input operand 1 has a mismatch in its core dimension 0")

----------------------------------------------------------------------------
(* Properties of instrument_labels, checked under LabelsSpec *)

\* the labels a solver is to have: those supplied, or the solver identifier
\* followed by the instrument index
LabelsOf(a) ==
  IF a.instrument_labels # None THEN The(a.instrument_labels)
  ELSE [j \in 1..a.m |-> <<a.id, j - 1>>]

\* C26: after construction every read of instrument_labels yields the same m
\* labels, supplied or defaulted, and they are the labels the chain-wide
\* label sequence was built from.
C26_LabelsReadTheSame ==
  (out # None /\ The(out).exc = NoExc) =>
    /\ The(out).pre_instrument_labels =
         [j \in 1..The(arg).m |-> <<The(arg).id, LabelsOf(The(arg))[j]>>]
    /\ \A k \in DOMAIN The(out).reads :
         /\ Len(The(out).reads[k]) = The(arg).m
         /\ The(out).reads[k] = LabelsOf(The(arg))

----------------------------------------------------------------------------
(* Properties of a refused construction, checked under RefuseSpec *)

\* the constructor raised a configuration error
Refused == pc = "aborted" /\ result.op = "__init__" /\ result.exc.type = "ValueError"

\* C27: when construction is refused with a configuration error, every curve
\* handed to the constructor has the node values and the differentiation order
\* it had before the call, no recompute was invoked and no cycle ran.
C27_RefusalLeavesCurves ==
  Refused =>
    /\ \A q \in DOMAIN The(arg).curves :
         curves[The(arg).curves[q]] = The(arg).before[The(arg).curves[q]]
    /\ f_list = <<>>
    /\ nsteps = 0
    /\ events = <<>>

============================================================================
